---- MODULE Spec2Model ----
(***************************************************************************)
(* kytos-ng/telemetry_int: the INTManager (managers/int.py) and the NApp   *)
(* entry points (main.py) as a state machine.                              *)
(*                                                                         *)
(* The state is the Manager's two registries (unis_src, srcs_pp), the      *)
(* collaborators it reads and writes (mef_eline's circuits, flow_manager's *)
(* stored flows, the topology's interfaces and links, the settings) and    *)
(* what the running call has emitted: the events put on                    *)
(* controller.buffers.app, the metadata requests sent to mef_eline and the *)
(* exception the call ended with.                                          *)
(***************************************************************************)
EXTENDS Integers, Sequences, FiniteSets, TLC

VARIABLES
    evcs,            \* mef_eline: evc_id -> circuit (exists, active, archived, telemetry metadata)
    flows,           \* flow_manager: the set of stored flows, each {switch, flow}
    uni_meta,        \* topology: UNI interface id -> "unknown" | "none" | proxy_port number
    loop,            \* topology: source interface id -> "nolink" | "DOWN" | "UP" (its looped link)
    unis_src,        \* INTManager.unis_src: UNI interface id -> source interface id
    srcs_pp,         \* INTManager.srcs_pp: source interface id -> ProxyPort
    BATCH_SIZE,      \* settings.BATCH_SIZE
    call,            \* the call just ended: operation, arguments, and for a handler the
                     \* settings.FALLBACK_TO_MEF_LOOP_DOWN it read
    result,          \* how it ended: "ok" or the exception raised
    buffer,          \* what it put on controller.buffers.app (and its sleeps), in order
    metadata_calls   \* the api.add_evcs_metadata requests it sent, in order

vars == <<evcs, flows, uni_meta, loop, unis_src, srcs_pp,
          BATCH_SIZE, call, result, buffer, metadata_calls>>

(***************************************************************************)
(* Bounds of the batching model and the settings' values.                  *)
(***************************************************************************)
MaxFlows == 4
MaxBatch == 3
MaxRecords == 2
\* how many things may be out of order in the network at a time
MaxAnomalies == 1

INT_COOKIE_PREFIX == 168
MEF_COOKIE_PREFIX == 170

None == "None"

(***************************************************************************)
(* The network the circuits run on: two switches, three UNIs, three        *)
(* interfaces that can be the source of a loop. Circuit e1 is intra-switch *)
(* (both UNIs on s1), e2 is inter-switch; they share UNI s1:11.            *)
(***************************************************************************)
EvcIds == {"e1", "e2"}
Switches == {"s1", "s2"}
Unis == {"s1:11", "s1:12", "s2:11"}
SrcIds == {"s1:1", "s1:2", "s2:1"}

SwitchOf(intf_id) ==
    IF intf_id \in {"s1:1", "s1:2", "s1:11", "s1:12"} THEN "s1" ELSE "s2"

EvcUnis ==
    [e1 |-> [uni_a |-> "s1:11", uni_z |-> "s1:12"],
     e2 |-> [uni_a |-> "s1:11", uni_z |-> "s2:11"]]

\* Switch.get_interface_by_port_no: the interface, or None when the switch has no such port
get_interface_by_port_no(switch, port_no) ==
    CASE switch = "s1" /\ port_no = "1" -> "s1:1"
      [] switch = "s1" /\ port_no = "2" -> "s1:2"
      [] switch = "s2" /\ port_no = "1" -> "s2:1"
      [] OTHER -> None

\* utils.get_cookie: the prefix in the top byte, the circuit id in the low 56 bits
get_cookie(evc_id, prefix) == [prefix |-> prefix, id |-> evc_id]

\* utils.get_id_from_cookie: the low 56 bits
get_id_from_cookie(cookie) == cookie.id

(***************************************************************************)
(* Circuits. A snapshot is what a caller prefetched from mef_eline; an     *)
(* absent circuit is the empty dict.                                       *)
(***************************************************************************)
NoTelemetry == [enabled |-> FALSE, status |-> "NONE", status_reason |-> <<>>]

EmptyEvc(evc_id) ==
    [id |-> evc_id, present |-> FALSE, active |-> FALSE, archived |-> FALSE,
     telemetry |-> NoTelemetry]

\* api.get_evc / api.get_evcs for one circuit of the repository `repo`, as main.py
\* maps it: evcs.get(evc_id, {})
Snapshot(repo, evc_id) ==
    IF repo[evc_id].exists
    THEN [id |-> evc_id, present |-> TRUE, active |-> repo[evc_id].active,
          archived |-> repo[evc_id].archived, telemetry |-> repo[evc_id].telemetry]
    ELSE EmptyEvc(evc_id)

Snapshots(repo) == [e \in EvcIds |-> Snapshot(repo, e)]

\* utils.has_int_enabled
has_int_enabled(evc) == evc.present /\ evc.telemetry.enabled

\* utils.get_evc_unis
get_evc_unis(evc) == EvcUnis[evc.id]

\* utils.is_intra_switch_evc
is_intra_switch_evc(evc) ==
    SwitchOf(get_evc_unis(evc).uni_a) = SwitchOf(get_evc_unis(evc).uni_z)

(***************************************************************************)
(* ProxyPort (proxy_port.py): source, evc_ids; destination and status are  *)
(* read from the source's link.                                            *)
(***************************************************************************)
ProxyPort(source) == [source |-> source, evc_ids |-> {}]

\* the interface at the far end of a source's loop
DestOf(source) ==
    CASE source = "s1:1" -> "s1:3"
      [] source = "s1:2" -> "s1:4"
      [] OTHER -> "s2:3"

pp_destination(pp) ==
    IF pp.source = None \/ loop[pp.source] = "nolink" THEN None ELSE DestOf(pp.source)

pp_status(pp) ==
    IF pp.source # None /\ loop[pp.source] = "UP" THEN "UP" ELSE "DOWN"

(***************************************************************************)
(* Stored flows. A circuit's base (mef_eline) flows are fixed by its path; *)
(* the flow builder derives one INT flow from each base flow, on the same  *)
(* switch, with the INT cookie.                                            *)
(***************************************************************************)
StoredFlow(switch, cookie, match) ==
    [switch |-> switch, flow |-> [cookie |-> cookie, match |-> match]]

MefFlowsOf(evc_id) ==
    IF evc_id = "e1"
    THEN << StoredFlow("s1", get_cookie("e1", MEF_COOKIE_PREFIX), 1),
            StoredFlow("s1", get_cookie("e1", MEF_COOKIE_PREFIX), 2) >>
    ELSE << StoredFlow("s1", get_cookie("e2", MEF_COOKIE_PREFIX), 1),
            StoredFlow("s2", get_cookie("e2", MEF_COOKIE_PREFIX), 2) >>

IntFlowOf(mef_flow) ==
    StoredFlow(mef_flow.switch,
               get_cookie(get_id_from_cookie(mef_flow.flow.cookie), INT_COOKIE_PREFIX),
               mef_flow.flow.match)

MapSeq(Op(_), s) == [i \in 1..Len(s) |-> Op(s[i])]

IntFlowsOf(evc_id) == MapSeq(IntFlowOf, MefFlowsOf(evc_id))

\* api.get_stored_flows for one cookie: the stored flows carrying it
get_stored_flows_of(store, cookie) ==
    LET InStore(f) == f \in store
    IN  IF cookie.prefix = MEF_COOKIE_PREFIX
        THEN SelectSeq(MefFlowsOf(cookie.id), InStore)
        ELSE SelectSeq(IntFlowsOf(cookie.id), InStore)

RECURSIVE Flatten(_)
Flatten(ss) == IF ss = <<>> THEN <<>> ELSE Head(ss) \o Flatten(Tail(ss))

\* api.get_stored_flows(cookies): {cookie: [stored flow]}, here its values in key order
get_stored_flows(store, ids, prefix) ==
    Flatten([i \in 1..Len(ids) |-> get_stored_flows_of(store, get_cookie(ids[i], prefix))])

\* FlowBuilder.build_int_flows(evcs, stored mef flows): the INT flows of the circuits
build_int_flows(ids, mef_flows) ==
    LET OfIds(f) == \E i \in 1..Len(ids) : ids[i] = get_id_from_cookie(f.flow.cookie)
    IN  MapSeq(IntFlowOf, SelectSeq(mef_flows, OfIds))

(***************************************************************************)
(* Batched dispatch (INTManager._send_flows and its three callers).        *)
(* switch_flows is the dict dpid -> [flow] as the sequence of its items.   *)
(***************************************************************************)
Min(a, b) == IF a < b THEN a ELSE b

\* Python's s[a:b] for 0 <= a <= b
Slice(s, a, b) == SubSeq(s, a + 1, Min(b, Len(s)))

Event(cmd, dpid, flow_list) == [name |-> cmd, dpid |-> dpid, flows |-> flow_list]

\* the loop body of _send_flows from index i on: `cur` is the list the name `flows`
\* is bound to, n the length the range was built from
RECURSIVE send_batches(_, _, _, _, _, _)
send_batches(cmd, dpid, cur, i, n, batch_size) ==
    IF i >= n THEN <<>>
    ELSE LET batch == Slice(cur, i, i + batch_size)
         IN  (IF i > 0 THEN <<Event("sleep", dpid, <<>>)>> ELSE <<>>)
             \o <<Event(cmd, dpid, batch)>>
             \o send_batches(cmd, dpid, batch, i + batch_size, n, batch_size)

\* the batching that takes a non-positive setting for batches of one
send_flows_dpid_by_one(cmd, item, setting) ==
    LET batch_size == IF setting <= 0 THEN 1 ELSE setting
    IN  send_batches(cmd, item.dpid, item.flows, 0, Len(item.flows), batch_size)

send_flows_dpid(cmd, item, setting) ==
    LET batch_size == IF setting <= 0 THEN Len(item.flows) ELSE setting
    IN  send_batches(cmd, item.dpid, item.flows, 0, Len(item.flows), batch_size)

send_flows(switch_flows, cmd, setting) ==
    Flatten([k \in 1..Len(switch_flows) |-> send_flows_dpid(cmd, switch_flows[k], setting)])

\* defaultdict(list) filled from a list of (dpid, value): the dpids in the order they
\* first appear, each with its values in order
RECURSIVE FirstSeen(_)
FirstSeen(dpids) ==
    IF dpids = <<>> THEN <<>>
    ELSE LET rest == FirstSeen(SubSeq(dpids, 1, Len(dpids) - 1))
             last == dpids[Len(dpids)]
         IN  IF \E k \in 1..Len(rest) : rest[k] = last THEN rest ELSE Append(rest, last)

FlowOf(stored_flow) == stored_flow.flow
SwitchOfFlow(stored_flow) == stored_flow.switch

group_by_switch(stored_flows) ==
    LET dpids == FirstSeen(MapSeq(SwitchOfFlow, stored_flows))
    IN  [k \in 1..Len(dpids) |->
            LET On(f) == f.switch = dpids[k]
            IN  [dpid |-> dpids[k], flows |-> MapSeq(FlowOf, SelectSeq(stored_flows, On))]]

\* INTManager._install_int_flows
install_events(stored_flows, setting) ==
    send_flows(group_by_switch(stored_flows), "install", setting)

\* INTManager._remove_int_flows: delete with every match key of the stored flow
remove_events(stored_flows, setting) ==
    send_flows(group_by_switch(stored_flows), "delete", setting)

\* INTManager._remove_int_flows_by_cookies: per switch one delete entry per cookie
CookieEntry(stored_flow) ==
    [switch |-> stored_flow.switch,
     flow |-> [cookie |-> stored_flow.flow.cookie, cookie_mask |-> "0xFFFFFFFFFFFFFFFF",
               table_id |-> "OFPTT_ALL"]]

RECURSIVE Dedup(_)
Dedup(s) ==
    IF s = <<>> THEN <<>>
    ELSE LET rest == Dedup(SubSeq(s, 1, Len(s) - 1))
             last == s[Len(s)]
         IN  IF \E k \in 1..Len(rest) : rest[k] = last THEN rest ELSE Append(rest, last)

remove_by_cookies_events(stored_flows, setting) ==
    send_flows(group_by_switch(Dedup(MapSeq(CookieEntry, stored_flows))), "delete", setting)

(***************************************************************************)
(* flow_manager and mef_eline as the Manager sees them. An operation works *)
(* on a record m of everything it can change: the two collaborators'       *)
(* stores, the two registries, and its own output so far.                  *)
(***************************************************************************)
Raise(m, exc) == [m EXCEPT !.result = exc]

\* flow_manager handling one flows.install / flows.delete event
apply_event(store, ev) ==
    CASE ev.name = "install" ->
            store \cup {[switch |-> ev.dpid, flow |-> ev.flows[k]] : k \in 1..Len(ev.flows)}
      [] ev.name = "delete" ->
            {f \in store :
                ~ \E k \in 1..Len(ev.flows) :
                    /\ f.switch = ev.dpid
                    /\ f.flow.cookie = ev.flows[k].cookie
                    /\ \/ "cookie_mask" \in DOMAIN ev.flows[k]
                       \/ f.flow = ev.flows[k]}
      [] OTHER -> store

RECURSIVE apply_events(_, _)
apply_events(store, events) ==
    IF events = <<>> THEN store
    ELSE apply_events(apply_event(store, Head(events)), Tail(events))

\* await controller.buffers.app.aput(event), for each event of a dispatch
emit(m, events) ==
    [m EXCEPT !.buffer = @ \o events, !.flows = apply_events(@, events)]

\* a repository call that fails raises; which kind is the collaborator's business
FaultExc(fault) ==
    IF fault = "add_evcs_metadata" THEN "UnrecoverableError" ELSE "RetryError"

\* api.add_evcs_metadata(evcs, metadata, force): no request for no circuit; a circuit
\* mef_eline does not know answers 404, which force ignores
add_evcs_metadata(m, ids, snap, metadata, force, fault) ==
    LET Present(e) == snap[e].present
        circuit_ids == SelectSeq(ids, Present)
        known(e) == m.evcs[e].exists /\ \E k \in 1..Len(circuit_ids) : circuit_ids[k] = e
        request == [circuit_ids |-> circuit_ids, telemetry |-> metadata, force |-> force]
        sent == [m EXCEPT !.metadata_calls = Append(@, request)]
    IN  IF circuit_ids = <<>> THEN m
        ELSE IF fault = "add_evcs_metadata" THEN Raise(sent, FaultExc(fault))
        ELSE LET patched == [sent EXCEPT !.evcs =
                                [e \in EvcIds |->
                                    IF known(e) THEN [@[e] EXCEPT !.telemetry = metadata]
                                    ELSE @[e]]]
             IN  IF (\E k \in 1..Len(circuit_ids) : ~ m.evcs[circuit_ids[k]].exists) /\ ~ force
                 THEN Raise(patched, "UnrecoverableError")
                 ELSE patched

Telemetry(enabled, status, status_reason) ==
    [enabled |-> enabled, status |-> status, status_reason |-> status_reason]

(***************************************************************************)
(* INTManager                                                              *)
(***************************************************************************)
\* get_proxy_port_or_raise without its look at the destination
get_proxy_port_or_raise_any_dest(pps, intf_id) ==
    LET source_intf == get_interface_by_port_no(SwitchOf(intf_id), uni_meta[intf_id])
        reg == IF source_intf \in DOMAIN pps THEN pps
               ELSE pps @@ (source_intf :> ProxyPort(source_intf))
    IN  IF uni_meta[intf_id] = "unknown"
        THEN [exc |-> "ProxyPortNotFound", pp |-> None, srcs_pp |-> pps]
        ELSE IF uni_meta[intf_id] = "none"
        THEN [exc |-> "ProxyPortNotFound", pp |-> None, srcs_pp |-> pps]
        ELSE IF source_intf = None
        THEN [exc |-> "ProxyPortNotFound", pp |-> None, srcs_pp |-> pps]
        ELSE [exc |-> "ok", pp |-> source_intf, srcs_pp |-> reg]

\* get_proxy_port_or_raise(intf_id, evc_id) on the registry pps: the exception or "ok",
\* the key of the ProxyPort returned, and the registry afterwards (a ProxyPort is
\* created and registered before its destination is looked at)
get_proxy_port_or_raise(pps, intf_id) ==
    LET source_intf == get_interface_by_port_no(SwitchOf(intf_id), uni_meta[intf_id])
        reg == IF source_intf \in DOMAIN pps THEN pps
               ELSE pps @@ (source_intf :> ProxyPort(source_intf))
    IN  IF uni_meta[intf_id] = "unknown"
        THEN [exc |-> "ProxyPortNotFound", pp |-> None, srcs_pp |-> pps]
        ELSE IF uni_meta[intf_id] = "none"
        THEN [exc |-> "ProxyPortNotFound", pp |-> None, srcs_pp |-> pps]
        ELSE IF source_intf = None
        THEN [exc |-> "ProxyPortNotFound", pp |-> None, srcs_pp |-> pps]
        ELSE IF pp_destination(reg[source_intf]) = None
        THEN [exc |-> "ProxyPortDestNotFound", pp |-> None, srcs_pp |-> reg]
        ELSE [exc |-> "ok", pp |-> source_intf, srcs_pp |-> reg]

\* variants of the check: one that objects to every same-switch circuit, one to none
validate_intra_evc_always(evc, pp_a, pp_z) ==
    IF ~ is_intra_switch_evc(evc) THEN "ok" ELSE "ProxyPortSameSourceIntraEVC"

validate_intra_evc_never(evc, pp_a, pp_z) == "ok"

\* _validate_intra_evc_different_proxy_ports, on the two ProxyPorts mapped to the UNIs
validate_intra_evc_different_proxy_ports(evc, pp_a, pp_z) ==
    IF ~ is_intra_switch_evc(evc) THEN "ok"
    ELSE IF pp_a.source # pp_z.source THEN "ok"
    ELSE "ProxyPortSameSourceIntraEVC"

\* the iteration without its checks of the ProxyPorts' status
validate_map_enable_evc_no_status(evc, force, pps) ==
    LET unis == get_evc_unis(evc)
        a == get_proxy_port_or_raise(pps, unis.uni_a)
        z == get_proxy_port_or_raise(a.srcs_pp, unis.uni_z)
    IN  IF ~ evc.present THEN [exc |-> "EVCNotFound", srcs_pp |-> pps]
        ELSE IF has_int_enabled(evc) /\ ~ force THEN [exc |-> "EVCHasINT", srcs_pp |-> pps]
        ELSE IF a.exc # "ok" THEN [exc |-> a.exc, srcs_pp |-> a.srcs_pp]
        ELSE IF z.exc # "ok" THEN [exc |-> z.exc, srcs_pp |-> z.srcs_pp]
        ELSE [exc |-> validate_intra_evc_different_proxy_ports(
                          evc, z.srcs_pp[a.pp], z.srcs_pp[z.pp]),
              srcs_pp |-> z.srcs_pp]

\* the iteration without its check of has_int_enabled
validate_map_enable_evc_no_has_int(evc, force, pps) ==
    LET unis == get_evc_unis(evc)
        a == get_proxy_port_or_raise(pps, unis.uni_a)
        z == get_proxy_port_or_raise(a.srcs_pp, unis.uni_z)
    IN  IF ~ evc.present THEN [exc |-> "EVCNotFound", srcs_pp |-> pps]
        ELSE IF a.exc # "ok" THEN [exc |-> a.exc, srcs_pp |-> a.srcs_pp]
        ELSE IF z.exc # "ok" THEN [exc |-> z.exc, srcs_pp |-> z.srcs_pp]
        ELSE IF pp_status(z.srcs_pp[a.pp]) # "UP" /\ ~ force
        THEN [exc |-> "ProxyPortStatusNotUP", srcs_pp |-> z.srcs_pp]
        ELSE IF pp_status(z.srcs_pp[z.pp]) # "UP" /\ ~ force
        THEN [exc |-> "ProxyPortStatusNotUP", srcs_pp |-> z.srcs_pp]
        ELSE [exc |-> validate_intra_evc_different_proxy_ports(
                          evc, z.srcs_pp[a.pp], z.srcs_pp[z.pp]),
              srcs_pp |-> z.srcs_pp]

\* one iteration of the loop of _validate_map_enable_evcs
validate_map_enable_evc(evc, force, pps) ==
    LET unis == get_evc_unis(evc)
        a == get_proxy_port_or_raise(pps, unis.uni_a)
        z == get_proxy_port_or_raise(a.srcs_pp, unis.uni_z)
    IN  IF ~ evc.present THEN [exc |-> "EVCNotFound", srcs_pp |-> pps]
        ELSE IF has_int_enabled(evc) /\ ~ force THEN [exc |-> "EVCHasINT", srcs_pp |-> pps]
        ELSE IF a.exc # "ok" THEN [exc |-> a.exc, srcs_pp |-> a.srcs_pp]
        ELSE IF z.exc # "ok" THEN [exc |-> z.exc, srcs_pp |-> z.srcs_pp]
        ELSE IF pp_status(z.srcs_pp[a.pp]) # "UP" /\ ~ force
        THEN [exc |-> "ProxyPortStatusNotUP", srcs_pp |-> z.srcs_pp]
        ELSE IF pp_status(z.srcs_pp[z.pp]) # "UP" /\ ~ force
        THEN [exc |-> "ProxyPortStatusNotUP", srcs_pp |-> z.srcs_pp]
        ELSE [exc |-> validate_intra_evc_different_proxy_ports(
                          evc, z.srcs_pp[a.pp], z.srcs_pp[z.pp]),
              srcs_pp |-> z.srcs_pp]

\* _validate_map_enable_evcs(evcs, force): the circuits in the dict's order, stopping at
\* the first that raises
RECURSIVE validate_map_enable_evcs(_, _, _, _)
validate_map_enable_evcs(ids, snap, force, pps) ==
    IF ids = <<>> THEN [exc |-> "ok", srcs_pp |-> pps]
    ELSE LET v == validate_map_enable_evc(snap[Head(ids)], force, pps)
         IN  IF v.exc # "ok" THEN v
             ELSE validate_map_enable_evcs(Tail(ids), snap, force, v.srcs_pp)

\* the ProxyPort mapped to a UNI by a validation that passed: uni["proxy_port"]
mapped_pp(pps, intf_id) ==
    pps[get_interface_by_port_no(SwitchOf(intf_id), uni_meta[intf_id])]

\* _validate_has_int looking at the first circuit only
validate_has_int_first_only(ids, snap) ==
    IF ids = <<>> THEN "ok"
    ELSE IF ~ has_int_enabled(snap[Head(ids)]) THEN "EVCHasNoINT"
    ELSE "ok"

\* _validate_has_int
RECURSIVE validate_has_int(_, _)
validate_has_int(ids, snap) ==
    IF ids = <<>> THEN "ok"
    ELSE IF ~ has_int_enabled(snap[Head(ids)]) THEN "EVCHasNoINT"
    ELSE validate_has_int(Tail(ids), snap)

\* _validate_disable_evcs without its check of the circuit being there
RECURSIVE validate_disable_evcs_no_not_found(_, _, _)
validate_disable_evcs_no_not_found(ids, snap, force) ==
    IF ids = <<>> THEN "ok"
    ELSE IF ~ has_int_enabled(snap[Head(ids)]) /\ ~ force THEN "EVCHasNoINT"
    ELSE validate_disable_evcs_no_not_found(Tail(ids), snap, force)

\* _validate_disable_evcs
RECURSIVE validate_disable_evcs(_, _, _)
validate_disable_evcs(ids, snap, force) ==
    IF ids = <<>> THEN "ok"
    ELSE IF ~ snap[Head(ids)].present /\ ~ force THEN "EVCNotFound"
    ELSE IF ~ has_int_enabled(snap[Head(ids)]) /\ ~ force THEN "EVCHasNoINT"
    ELSE validate_disable_evcs(Tail(ids), snap, force)

\* the check of the built flows left out
validate_evcs_stored_flows_skipped(ids, snap, built) == "ok"

\* _validate_evcs_stored_flows: each active circuit has built flows
RECURSIVE validate_evcs_stored_flows(_, _, _)
validate_evcs_stored_flows(ids, snap, built) ==
    IF ids = <<>> THEN "ok"
    ELSE IF /\ snap[Head(ids)].active
            /\ ~ \E k \in 1..Len(built) : get_id_from_cookie(built[k].flow.cookie) = Head(ids)
    THEN "FlowsNotFound"
    ELSE validate_evcs_stored_flows(Tail(ids), snap, built)

IsIn(e, ids) == \E k \in 1..Len(ids) : ids[k] = e

\* _add_pps_evc_ids adding the circuit to the ProxyPort of uni_a only
RECURSIVE add_pps_evc_ids_a_only(_, _, _)
add_pps_evc_ids_a_only(m, ids, snap) ==
    IF ids = <<>> THEN m
    ELSE LET evc == snap[Head(ids)]
             unis == get_evc_unis(evc)
             a == get_proxy_port_or_raise(m.srcs_pp, unis.uni_a)
             z == get_proxy_port_or_raise(a.srcs_pp, unis.uni_z)
             added == [k \in DOMAIN z.srcs_pp |->
                          IF k = a.pp
                          THEN [z.srcs_pp[k] EXCEPT !.evc_ids = @ \cup {evc.id}]
                          ELSE z.srcs_pp[k]]
             index == [u \in DOMAIN m.unis_src \cup {unis.uni_a, unis.uni_z} |->
                          IF u = unis.uni_z THEN added[z.pp].source
                          ELSE IF u = unis.uni_a THEN added[a.pp].source
                          ELSE m.unis_src[u]]
         IN  IF ~ evc.present THEN Raise(m, "KeyError")
             ELSE IF a.exc # "ok" THEN Raise([m EXCEPT !.srcs_pp = a.srcs_pp], a.exc)
             ELSE IF z.exc # "ok" THEN Raise([m EXCEPT !.srcs_pp = z.srcs_pp], z.exc)
             ELSE add_pps_evc_ids_a_only([m EXCEPT !.srcs_pp = added, !.unis_src = index],
                                         Tail(ids), snap)

\* _add_pps_evc_ids: the circuits in order; an exception leaves the earlier ones added
RECURSIVE add_pps_evc_ids(_, _, _)
add_pps_evc_ids(m, ids, snap) ==
    IF ids = <<>> THEN m
    ELSE LET evc == snap[Head(ids)]
             unis == get_evc_unis(evc)
             a == get_proxy_port_or_raise(m.srcs_pp, unis.uni_a)
             z == get_proxy_port_or_raise(a.srcs_pp, unis.uni_z)
             added == [k \in DOMAIN z.srcs_pp |->
                          IF k \in {a.pp, z.pp}
                          THEN [z.srcs_pp[k] EXCEPT !.evc_ids = @ \cup {evc.id}]
                          ELSE z.srcs_pp[k]]
             index == [u \in DOMAIN m.unis_src \cup {unis.uni_a, unis.uni_z} |->
                          IF u = unis.uni_z THEN added[z.pp].source
                          ELSE IF u = unis.uni_a THEN added[a.pp].source
                          ELSE m.unis_src[u]]
         IN  IF ~ evc.present THEN Raise(m, "KeyError")
             ELSE IF a.exc # "ok" THEN Raise([m EXCEPT !.srcs_pp = a.srcs_pp], a.exc)
             ELSE IF z.exc # "ok" THEN Raise([m EXCEPT !.srcs_pp = z.srcs_pp], z.exc)
             ELSE add_pps_evc_ids([m EXCEPT !.srcs_pp = added, !.unis_src = index],
                                  Tail(ids), snap)

\* _discard_pps_evc_ids
RECURSIVE discard_pps_evc_ids(_, _, _)
discard_pps_evc_ids(m, ids, snap) ==
    IF ids = <<>> THEN m
    ELSE LET evc == snap[Head(ids)]
             unis == get_evc_unis(evc)
             a == get_proxy_port_or_raise(m.srcs_pp, unis.uni_a)
             z == get_proxy_port_or_raise(a.srcs_pp, unis.uni_z)
             discarded == [k \in DOMAIN z.srcs_pp |->
                              IF k \in {a.pp, z.pp}
                              THEN [z.srcs_pp[k] EXCEPT !.evc_ids = @ \ {evc.id}]
                              ELSE z.srcs_pp[k]]
         IN  IF ~ evc.present THEN Raise(m, "KeyError")
             ELSE IF a.exc # "ok" THEN Raise([m EXCEPT !.srcs_pp = a.srcs_pp], a.exc)
             ELSE IF z.exc # "ok" THEN Raise([m EXCEPT !.srcs_pp = z.srcs_pp], z.exc)
             ELSE discard_pps_evc_ids([m EXCEPT !.srcs_pp = discarded], Tail(ids), snap)

ProxyPortError ==
    {"ProxyPortNotFound", "ProxyPortDestNotFound", "ProxyPortStatusNotUP",
     "ProxyPortSameSourceIntraEVC"}

\* install_int_flows looking at the ProxyPort of uni_a only
install_int_flows_a_only(m, ids, snap, metadata, force, fault) ==
    LET built == build_int_flows(ids, get_stored_flows(m.flows, ids, MEF_COOKIE_PREFIX))
        checked == validate_evcs_stored_flows(ids, snap, built)
        unis(e) == get_evc_unis(snap[e])
        Inactive(e) == ~ snap[e].active
        PpDown(e) == /\ snap[e].active
                     /\ pp_status(mapped_pp(m.srcs_pp, unis(e).uni_a)) # "UP"
        Active(e) == ~ Inactive(e) /\ ~ PpDown(e)
        inactive_metadata == [metadata EXCEPT !.status = "DOWN", !.status_reason = <<"no_flows">>]
        pp_down_metadata ==
            [metadata EXCEPT !.status = "DOWN", !.status_reason = <<"proxy_port_down">>]
        m1 == emit(m, install_events(built, BATCH_SIZE))
        m2 == add_evcs_metadata(m1, SelectSeq(ids, Inactive), snap, inactive_metadata,
                                force, fault)
        m3 == add_evcs_metadata(m2, SelectSeq(ids, PpDown), snap, pp_down_metadata,
                                force, fault)
    IN  IF fault = "get_stored_flows" THEN Raise(m, FaultExc(fault))
        ELSE IF checked # "ok" THEN Raise(m, checked)
        ELSE add_evcs_metadata(m3, SelectSeq(ids, Active), snap, metadata, force, fault)

\* install_int_flows(evcs, metadata, force): build, validate, partition, then the
\* dispatch and the three metadata updates gathered
install_int_flows(m, ids, snap, metadata, force, fault) ==
    LET built == build_int_flows(ids, get_stored_flows(m.flows, ids, MEF_COOKIE_PREFIX))
        checked == validate_evcs_stored_flows(ids, snap, built)
        unis(e) == get_evc_unis(snap[e])
        Inactive(e) == ~ snap[e].active
        PpDown(e) == /\ snap[e].active
                     /\ \/ pp_status(mapped_pp(m.srcs_pp, unis(e).uni_a)) # "UP"
                        \/ pp_status(mapped_pp(m.srcs_pp, unis(e).uni_z)) # "UP"
        Active(e) == ~ Inactive(e) /\ ~ PpDown(e)
        inactive_metadata == [metadata EXCEPT !.status = "DOWN", !.status_reason = <<"no_flows">>]
        pp_down_metadata ==
            [metadata EXCEPT !.status = "DOWN", !.status_reason = <<"proxy_port_down">>]
        m1 == emit(m, install_events(built, BATCH_SIZE))
        m2 == add_evcs_metadata(m1, SelectSeq(ids, Inactive), snap, inactive_metadata,
                                force, fault)
        m3 == add_evcs_metadata(m2, SelectSeq(ids, PpDown), snap, pp_down_metadata,
                                force, fault)
    IN  IF fault = "get_stored_flows" THEN Raise(m, FaultExc(fault))
        ELSE IF checked # "ok" THEN Raise(m, checked)
        ELSE add_evcs_metadata(m3, SelectSeq(ids, Active), snap, metadata, force, fault)

\* remove_int_flows(evcs, metadata, force)
remove_int_flows(m, ids, snap, metadata, force, fault) ==
    LET stored == get_stored_flows(m.flows, ids, INT_COOKIE_PREFIX)
    IN  IF fault = "get_stored_flows" THEN Raise(m, FaultExc(fault))
        ELSE add_evcs_metadata(emit(m, remove_by_cookies_events(stored, BATCH_SIZE)),
                               ids, snap, metadata, force, fault)

\* enable_int(evcs, force)
enable_int(m, ids, snap, force, fault) ==
    LET v == validate_map_enable_evcs(ids, snap, force, m.srcs_pp)
        mapped == [m EXCEPT !.srcs_pp = v.srcs_pp]
        installed == install_int_flows(mapped, ids, snap, Telemetry(TRUE, "UP", <<>>),
                                       FALSE, fault)
    IN  IF v.exc # "ok" THEN Raise(mapped, v.exc)
        ELSE IF installed.result # "ok" THEN installed
        ELSE add_pps_evc_ids(installed, ids, snap)

\* disable_int suppressing the failure to unregister whatever force is
disable_int_suppressing(m, ids, snap, force, fault) ==
    LET v == validate_disable_evcs(ids, snap, force)
        removed == remove_int_flows(m, ids, snap, Telemetry(FALSE, "DOWN", <<"disabled">>),
                                    force, fault)
        discarded == discard_pps_evc_ids(removed, ids, snap)
    IN  IF v # "ok" THEN Raise(m, v)
        ELSE IF removed.result # "ok" THEN removed
        ELSE IF discarded.result \in ProxyPortError THEN Raise(discarded, "ok")
        ELSE discarded

\* disable_int(evcs, force)
disable_int(m, ids, snap, force, fault) ==
    LET v == validate_disable_evcs(ids, snap, force)
        removed == remove_int_flows(m, ids, snap, Telemetry(FALSE, "DOWN", <<"disabled">>),
                                    force, fault)
        discarded == discard_pps_evc_ids(removed, ids, snap)
    IN  IF v # "ok" THEN Raise(m, v)
        ELSE IF removed.result # "ok" THEN removed
        ELSE IF discarded.result \in ProxyPortError /\ force THEN Raise(discarded, "ok")
        ELSE discarded

\* redeploy_int installing before it removes
redeploy_int_install_first(m, ids, snap, fault) ==
    LET has_int == validate_has_int(ids, snap)
        v == validate_map_enable_evcs(ids, snap, TRUE, m.srcs_pp)
        mapped == [m EXCEPT !.srcs_pp = v.srcs_pp]
        stored == get_stored_flows(m.flows, ids, INT_COOKIE_PREFIX)
        installed == install_int_flows(mapped, ids, snap, Telemetry(TRUE, "UP", <<>>),
                                       TRUE, fault)
    IN  IF has_int # "ok" THEN Raise(m, has_int)
        ELSE IF v.exc # "ok" THEN Raise(mapped, v.exc)
        ELSE IF fault = "get_stored_flows" THEN Raise(mapped, FaultExc(fault))
        ELSE IF installed.result # "ok" THEN installed
        ELSE emit(installed, remove_by_cookies_events(stored, BATCH_SIZE))

\* redeploy_int(evcs)
redeploy_int(m, ids, snap, fault) ==
    LET has_int == validate_has_int(ids, snap)
        v == validate_map_enable_evcs(ids, snap, TRUE, m.srcs_pp)
        mapped == [m EXCEPT !.srcs_pp = v.srcs_pp]
        stored == get_stored_flows(m.flows, ids, INT_COOKIE_PREFIX)
        removed == emit(mapped, remove_by_cookies_events(stored, BATCH_SIZE))
    IN  IF has_int # "ok" THEN Raise(m, has_int)
        ELSE IF v.exc # "ok" THEN Raise(mapped, v.exc)
        ELSE IF fault = "get_stored_flows" THEN Raise(mapped, FaultExc(fault))
        ELSE install_int_flows(removed, ids, snap, Telemetry(TRUE, "UP", <<>>), TRUE, fault)

(***************************************************************************)
(* evc_compare(stored_int_flows, stored_mef_flows, evcs): the two stored   *)
(* flow dicts are keyed by cookie, evcs by circuit id; the result holds a  *)
(* list of flags for each circuit that got one.                            *)
(***************************************************************************)
\* {utils.get_id_from_cookie(k): v for k, v in stored.items()}
by_evc_id(stored) ==
    [id \in {get_id_from_cookie(k) : k \in DOMAIN stored} |->
        stored[CHOOSE k \in DOMAIN stored : get_id_from_cookie(k) = id]]

\* evc_compare comparing the two lengths with <=
evc_compare_le(stored_int_flows, stored_mef_flows, circuits) ==
    LET int_flows == by_evc_id(stored_int_flows)
        mef_flows == by_evc_id(stored_mef_flows)
        Wrong(e) == /\ ~ has_int_enabled(circuits[e])
                    /\ e \in DOMAIN int_flows
                    /\ int_flows[e] # <<>>
        Missing(e) == /\ has_int_enabled(circuits[e])
                      /\ e \in DOMAIN mef_flows
                      /\ mef_flows[e] # <<>>
                      /\ \/ e \notin DOMAIN int_flows
                         \/ /\ e \in DOMAIN int_flows
                            /\ Len(int_flows[e]) <= Len(mef_flows[e])
        flags(e) == (IF Wrong(e) THEN <<"wrong_metadata_has_int_flows">> ELSE <<>>)
                    \o (IF Missing(e) THEN <<"missing_some_int_flows">> ELSE <<>>)
    IN  [e \in {x \in DOMAIN circuits : flags(x) # <<>>} |-> flags(e)]

evc_compare(stored_int_flows, stored_mef_flows, circuits) ==
    LET int_flows == by_evc_id(stored_int_flows)
        mef_flows == by_evc_id(stored_mef_flows)
        Wrong(e) == /\ ~ has_int_enabled(circuits[e])
                    /\ e \in DOMAIN int_flows
                    /\ int_flows[e] # <<>>
        Missing(e) == /\ has_int_enabled(circuits[e])
                      /\ e \in DOMAIN mef_flows
                      /\ mef_flows[e] # <<>>
                      /\ \/ e \notin DOMAIN int_flows
                         \/ /\ e \in DOMAIN int_flows
                            /\ Len(int_flows[e]) < Len(mef_flows[e])
        flags(e) == (IF Wrong(e) THEN <<"wrong_metadata_has_int_flows">> ELSE <<>>)
                    \o (IF Missing(e) THEN <<"missing_some_int_flows">> ELSE <<>>)
    IN  [e \in {x \in DOMAIN circuits : flags(x) # <<>>} |-> flags(e)]

(***************************************************************************)
(* Topology link events (handle_pp_link_down, handle_pp_link_up).          *)
(***************************************************************************)
\* the dict order of what mef_eline returns
EvcOrder == <<"e1", "e2">>

\* api.get_evcs(metadata.telemetry.enabled=true, metadata.telemetry.status=status)
get_evcs_with_status(repo, status) ==
    LET Match(e) == /\ repo[e].exists
                    /\ ~ repo[e].archived
                    /\ repo[e].telemetry.enabled
                    /\ repo[e].telemetry.status = status
    IN  SelectSeq(EvcOrder, Match)

\* a link of the topology, as the event carries it: the live object
Link(source) ==
    [endpoint_a |-> IF source = "s1:2" THEN DestOf(source) ELSE source,
     endpoint_b |-> IF source = "s1:2" THEN source ELSE DestOf(source),
     status |-> IF loop[source] = "UP" THEN "UP" ELSE "DOWN",
     status_reason |-> IF loop[source] = "UP" THEN {} ELSE {"deactivated"}]

\* the links an event can be about: the loops that exist
Links == {Link(source) : source \in {x \in SrcIds : loop[x] # "nolink"}}

\* pp = self.srcs_pp.get(link.endpoint_a.id); if not pp: pp = ...get(link.endpoint_b.id)
link_pp(pps, link) ==
    IF link.endpoint_a \in DOMAIN pps THEN link.endpoint_a
    ELSE IF link.endpoint_b \in DOMAIN pps THEN link.endpoint_b
    ELSE None

\* handle_pp_link_down without its look at the flag
handle_pp_link_down_unflagged(m, link, fallback, fault) ==
    LET pp == link_pp(m.srcs_pp, link)
        InPp(e) == e \in m.srcs_pp[pp].evc_ids
        to_deactivate == SelectSeq(get_evcs_with_status(m.evcs, "UP"), InPp)
    IN  IF pp = None THEN m
        ELSE IF m.srcs_pp[pp].evc_ids = {} THEN m
        ELSE IF fault = "get_evcs" THEN Raise(m, FaultExc(fault))
        ELSE IF to_deactivate = <<>> THEN m
        ELSE remove_int_flows(m, to_deactivate, Snapshots(m.evcs),
                              Telemetry(TRUE, "DOWN", <<"proxy_port_down">>), FALSE, fault)

\* handle_pp_link_down(link)
handle_pp_link_down(m, link, fallback, fault) ==
    LET pp == link_pp(m.srcs_pp, link)
        InPp(e) == e \in m.srcs_pp[pp].evc_ids
        to_deactivate == SelectSeq(get_evcs_with_status(m.evcs, "UP"), InPp)
    IN  IF ~ fallback THEN m
        ELSE IF pp = None THEN m
        ELSE IF m.srcs_pp[pp].evc_ids = {} THEN m
        ELSE IF fault = "get_evcs" THEN Raise(m, FaultExc(fault))
        ELSE IF to_deactivate = <<>> THEN m
        ELSE remove_int_flows(m, to_deactivate, Snapshots(m.evcs),
                              Telemetry(TRUE, "DOWN", <<"proxy_port_down">>), FALSE, fault)

EVCError ==
    ProxyPortError \cup {"EVCNotFound", "EVCHasINT", "EVCHasNoINT", "FlowsNotFound"}

\* handle_pp_link_up taking the circuits of any ProxyPort
handle_pp_link_up_any_member(m, link, fallback, fault) ==
    LET pp == link_pp(m.srcs_pp, link)
        snap == Snapshots(m.evcs)
        Candidate(e) ==
            /\ snap[e].active
            /\ ~ snap[e].archived
            /\ get_evc_unis(snap[e]).uni_a \in DOMAIN m.unis_src
            /\ get_evc_unis(snap[e]).uni_z \in DOMAIN m.unis_src
            /\ LET src_a_id == m.unis_src[get_evc_unis(snap[e]).uni_a]
                   src_z_id == m.unis_src[get_evc_unis(snap[e]).uni_z]
               IN  /\ src_a_id \in DOMAIN m.srcs_pp
                   /\ src_z_id \in DOMAIN m.srcs_pp
                   /\ pp_status(m.srcs_pp[src_a_id]) = "UP"
                   /\ pp_status(m.srcs_pp[src_z_id]) = "UP"
        to_install == SelectSeq(get_evcs_with_status(m.evcs, "DOWN"), Candidate)
        v == validate_map_enable_evcs(to_install, snap, TRUE, m.srcs_pp)
        mapped == [m EXCEPT !.srcs_pp = v.srcs_pp]
        installed == install_int_flows(mapped, to_install, snap,
                                       Telemetry(TRUE, "UP", <<>>), FALSE, fault)
    IN  IF ~ fallback THEN m
        ELSE IF pp = None THEN m
        ELSE IF m.srcs_pp[pp].evc_ids = {} THEN m
        ELSE IF link.status # "UP" \/ link.status_reason # {} THEN m
        ELSE IF fault = "get_evcs" THEN Raise(m, FaultExc(fault))
        ELSE IF to_install = <<>> THEN m
        ELSE IF v.exc \in EVCError THEN mapped
        ELSE IF installed.result = "FlowsNotFound" THEN Raise(installed, "ok")
        ELSE installed

\* handle_pp_link_up(link)
handle_pp_link_up(m, link, fallback, fault) ==
    LET pp == link_pp(m.srcs_pp, link)
        snap == Snapshots(m.evcs)
        Candidate(e) ==
            /\ snap[e].active
            /\ ~ snap[e].archived
            /\ e \in m.srcs_pp[pp].evc_ids
            /\ get_evc_unis(snap[e]).uni_a \in DOMAIN m.unis_src
            /\ get_evc_unis(snap[e]).uni_z \in DOMAIN m.unis_src
            /\ LET src_a_id == m.unis_src[get_evc_unis(snap[e]).uni_a]
                   src_z_id == m.unis_src[get_evc_unis(snap[e]).uni_z]
               IN  /\ src_a_id \in DOMAIN m.srcs_pp
                   /\ src_z_id \in DOMAIN m.srcs_pp
                   /\ pp_status(m.srcs_pp[src_a_id]) = "UP"
                   /\ pp_status(m.srcs_pp[src_z_id]) = "UP"
        to_install == SelectSeq(get_evcs_with_status(m.evcs, "DOWN"), Candidate)
        v == validate_map_enable_evcs(to_install, snap, TRUE, m.srcs_pp)
        mapped == [m EXCEPT !.srcs_pp = v.srcs_pp]
        installed == install_int_flows(mapped, to_install, snap,
                                       Telemetry(TRUE, "UP", <<>>), FALSE, fault)
    IN  IF ~ fallback THEN m
        ELSE IF pp = None THEN m
        ELSE IF m.srcs_pp[pp].evc_ids = {} THEN m
        ELSE IF link.status # "UP" \/ link.status_reason # {} THEN m
        ELSE IF fault = "get_evcs" THEN Raise(m, FaultExc(fault))
        ELSE IF to_install = <<>> THEN m
        ELSE IF v.exc \in EVCError THEN mapped
        ELSE IF installed.result = "FlowsNotFound" THEN Raise(installed, "ok")
        ELSE installed

(***************************************************************************)
(* Interface metadata events (handle_pp_metadata_removed,                  *)
(* handle_pp_metadata_added). intf is the interface the event carries.     *)
(***************************************************************************)
\* "proxy_port" in intf.metadata
has_proxy_port(intf) == uni_meta[intf] \notin {"unknown", "none"}

\* pp = self.srcs_pp[self.unis_src[intf.id]]: its key, or None for the KeyError
indexed_pp(m, intf) ==
    IF intf \notin DOMAIN m.unis_src THEN None
    ELSE IF m.unis_src[intf] \notin DOMAIN m.srcs_pp THEN None
    ELSE m.unis_src[intf]

\* api.get_evcs(metadata.telemetry.enabled=true)
get_evcs_enabled(repo) ==
    LET Match(e) == /\ repo[e].exists
                    /\ ~ repo[e].archived
                    /\ repo[e].telemetry.enabled
    IN  SelectSeq(EvcOrder, Match)

\* handle_pp_metadata_removed sending its update with force
handle_pp_metadata_removed_forced(m, intf, fault) ==
    LET pp == indexed_pp(m, intf)
        InPp(e) == e \in m.srcs_pp[pp].evc_ids
        to_deactivate == SelectSeq(get_evcs_with_status(m.evcs, "UP"), InPp)
    IN  IF has_proxy_port(intf) THEN m
        ELSE IF pp = None THEN m
        ELSE IF m.srcs_pp[pp].evc_ids = {} THEN m
        ELSE IF fault = "get_evcs" THEN Raise(m, FaultExc(fault))
        ELSE IF to_deactivate = <<>> THEN m
        ELSE remove_int_flows(m, to_deactivate, Snapshots(m.evcs),
                              Telemetry(TRUE, "DOWN", <<"proxy_port_metadata_removed">>),
                              TRUE, fault)

\* handle_pp_metadata_removed(intf)
handle_pp_metadata_removed(m, intf, fault) ==
    LET pp == indexed_pp(m, intf)
        InPp(e) == e \in m.srcs_pp[pp].evc_ids
        to_deactivate == SelectSeq(get_evcs_with_status(m.evcs, "UP"), InPp)
    IN  IF has_proxy_port(intf) THEN m
        ELSE IF pp = None THEN m
        ELSE IF m.srcs_pp[pp].evc_ids = {} THEN m
        ELSE IF fault = "get_evcs" THEN Raise(m, FaultExc(fault))
        ELSE IF to_deactivate = <<>> THEN m
        ELSE remove_int_flows(m, to_deactivate, Snapshots(m.evcs),
                              Telemetry(TRUE, "DOWN", <<"proxy_port_metadata_removed">>),
                              FALSE, fault)

\* pp.source = cur_source_intf, on the ProxyPort registered under key
repoint_source(pps, key, cur_source_intf) ==
    [pps EXCEPT ![key].source = cur_source_intf]

\* handle_pp_metadata_added(intf) up to its log line: the early returns, the source
\* repointed, the dependent circuits fetched. ids is empty when the handler is over.
metadata_added_fetch(m, intf, fault) ==
    LET pp == indexed_pp(m, intf)
        cur_source_intf == get_interface_by_port_no(SwitchOf(intf), uni_meta[intf])
        repointed == [m EXCEPT !.srcs_pp = repoint_source(@, pp, cur_source_intf)]
        InPp(e) == e \in m.srcs_pp[pp].evc_ids
        affected_evcs == SelectSeq(get_evcs_enabled(m.evcs), InPp)
        over(x) == [m |-> x, ids |-> <<>>, snap |-> Snapshots(m.evcs)]
    IN  IF ~ has_proxy_port(intf) THEN over(m)
        ELSE IF pp = None THEN over(m)
        ELSE IF m.srcs_pp[pp].evc_ids = {} THEN over(m)
        ELSE IF cur_source_intf = m.srcs_pp[pp].source THEN over(m)
        ELSE IF fault = "get_evcs" THEN over(Raise(repointed, FaultExc(fault)))
        ELSE [m |-> repointed, ids |-> affected_evcs, snap |-> Snapshots(m.evcs)]

\* the two calls the other way round
metadata_added_calls_enable_first == <<"enable_int", "disable_int">>

\* what the handler then awaits, in order
metadata_added_calls == <<"disable_int", "enable_int">>

\* one of the two, run on what came before: disable_int(affected_evcs, force=True) or
\* enable_int(affected_evcs, force=True)
metadata_added_call(name, fetched, m, fault) ==
    IF fetched.ids = <<>> THEN m
    ELSE IF m.result # "ok" THEN m
    ELSE IF name = "disable_int"
    THEN disable_int(m, fetched.ids, fetched.snap, TRUE, fault)
    ELSE enable_int(m, fetched.ids, fetched.snap, TRUE, fault)

\* except ProxyPortSameSourceIntraEVC: log.error(msg)
metadata_added_except(m) ==
    IF m.result = "ProxyPortSameSourceIntraEVC" THEN Raise(m, "ok") ELSE m

(***************************************************************************)
(* Failover events (handle_failover_flows). evcs_content is the sequence   *)
(* of its items: a circuit id with the event's fresh fragments ("flows")   *)
(* and stale fragments ("removed_flows"), each a base flow of the circuit  *)
(* with its switch; the circuit's other keys are read from snap.           *)
(***************************************************************************)
NoFailover ==
    [to_install |-> <<>>, to_remove |-> <<>>, to_remove_with_err |-> <<>>,
     new_flows |-> <<>>, old_flows |-> <<>>]

\* the loop body that goes on with a circuit whose ProxyPort resolution failed
failover_evc_no_continue(acc, item, snap) ==
    LET unis == get_evc_unis(snap[item.id])
        a == get_proxy_port_or_raise(acc.srcs_pp, unis.uni_a)
        z == get_proxy_port_or_raise(a.srcs_pp, unis.uni_z)
        failed == a.exc # "ok" \/ z.exc # "ok"
        reg == IF a.exc # "ok" THEN a.srcs_pp ELSE z.srcs_pp
    IN  IF ~ has_int_enabled(snap[item.id]) THEN acc
        ELSE [acc EXCEPT
                !.srcs_pp = reg,
                !.to_remove_with_err = IF failed THEN Append(@, item.id) ELSE @,
                !.new_flows = @ \o item.flows \o item.removed_flows,
                !.to_install = IF item.flows # <<>> THEN Append(@, item.id) ELSE @,
                !.to_remove = IF item.removed_flows # <<>> THEN Append(@, item.id) ELSE @]

\* the loop body of handle_failover_flows for one item of evcs_content
failover_evc(acc, item, snap) ==
    LET unis == get_evc_unis(snap[item.id])
        a == get_proxy_port_or_raise(acc.srcs_pp, unis.uni_a)
        z == get_proxy_port_or_raise(a.srcs_pp, unis.uni_z)
    IN  IF ~ has_int_enabled(snap[item.id]) THEN acc
        ELSE IF a.exc # "ok"
        THEN [acc EXCEPT !.srcs_pp = a.srcs_pp, !.to_remove_with_err = Append(@, item.id)]
        ELSE IF z.exc # "ok"
        THEN [acc EXCEPT !.srcs_pp = z.srcs_pp, !.to_remove_with_err = Append(@, item.id)]
        ELSE [acc EXCEPT
                !.srcs_pp = z.srcs_pp,
                !.new_flows = @ \o item.flows \o item.removed_flows,
                !.to_install = IF item.flows # <<>> THEN Append(@, item.id) ELSE @,
                !.to_remove = IF item.removed_flows # <<>> THEN Append(@, item.id) ELSE @]

\* for evc_id, evc in evcs_content.items()
RECURSIVE failover_evcs(_, _, _)
failover_evcs(acc, evcs_content, snap) ==
    IF evcs_content = <<>> THEN acc
    ELSE failover_evcs(failover_evc(acc, Head(evcs_content), snap), Tail(evcs_content), snap)

\* _build_failover_to_remove_flows(evcs, old_flows); the priority and table_group it
\* writes are not part of a flow here
build_failover_to_remove_flows(ids, old_flows) == build_int_flows(ids, old_flows)

ProxyPortErrorMetadata == Telemetry(TRUE, "DOWN", <<"proxy_port_error">>)

\* handle_failover_flows after its loop: if to_remove
failover_remove(m, acc) ==
    IF acc.to_remove = <<>> THEN m
    ELSE emit(m, remove_events(build_failover_to_remove_flows(acc.to_remove, acc.old_flows),
                               BATCH_SIZE))

\* if to_remove_with_err
failover_remove_with_err(m, acc, snap, fault) ==
    IF acc.to_remove_with_err = <<>> THEN m
    ELSE remove_int_flows(m, acc.to_remove_with_err, snap, ProxyPortErrorMetadata, TRUE, fault)

\* if to_install
failover_install(m, acc) ==
    IF m.result # "ok" THEN m
    ELSE IF acc.to_install = <<>> THEN m
    ELSE emit(m, install_events(build_int_flows(acc.to_install, acc.new_flows), BATCH_SIZE))

\* handle_failover_flows(evcs_content, event_name)
handle_failover_flows(m, evcs_content, snap, fault) ==
    LET acc == failover_evcs(NoFailover @@ [srcs_pp |-> m.srcs_pp], evcs_content, snap)
        scanned == [m EXCEPT !.srcs_pp = acc.srcs_pp]
    IN  failover_install(
            failover_remove_with_err(failover_remove(scanned, acc), acc, snap, fault), acc)

(***************************************************************************)
(* Main's listeners of flow_manager and mef_eline events                   *)
(* (on_flow_mod_error, on_evc_deleted). A flow error event carries the     *)
(* flow's cookie, the command that failed and whether an exception came    *)
(* with it; a deletion event carries the circuit as mef_eline had it.      *)
(***************************************************************************)
OfptErrorMetadata == Telemetry(FALSE, "DOWN", <<"ofpt_error">>)

\* on_flow_mod_error without its look at the command that failed
on_flow_mod_error_any_command(m, event, fault) ==
    LET evc_id == get_id_from_cookie(event.cookie)
        evc == Snapshot(m.evcs, evc_id)
    IN  IF event.error_exception \/ event.cookie.prefix # INT_COOKIE_PREFIX THEN m
        ELSE IF fault = "get_evc" THEN Raise(m, FaultExc(fault))
        ELSE IF ~ evc.present \/ ~ evc.telemetry.enabled THEN m
        ELSE remove_int_flows(m, <<evc_id>>, Snapshots(m.evcs), OfptErrorMetadata, TRUE, fault)

\* Main.on_flow_mod_error(event); api.get_evc is asked with exclude_archived=False
on_flow_mod_error(m, event, fault) ==
    LET evc_id == get_id_from_cookie(event.cookie)
        evc == Snapshot(m.evcs, evc_id)
    IN  IF \/ event.error_exception
           \/ event.error_command # "add"
           \/ event.cookie.prefix # INT_COOKIE_PREFIX
        THEN m
        ELSE IF fault = "get_evc" THEN Raise(m, FaultExc(fault))
        ELSE IF ~ evc.present \/ ~ evc.telemetry.enabled THEN m
        ELSE remove_int_flows(m, <<evc_id>>, Snapshots(m.evcs), OfptErrorMetadata, TRUE, fault)

\* Main.on_evc_deleted(event): content is the deleted circuit
on_evc_deleted(m, content, fault) ==
    IF ~ content.telemetry.enabled THEN m
    ELSE disable_int(m, <<content.id>>, [e \in EvcIds |-> content], TRUE, fault)

(***************************************************************************)
(* Main's REST entry point to enable telemetry (POST v1/evc/enable).       *)
(***************************************************************************)
\* the circuits of the request: the ids given or, for none, the circuits without INT
enable_telemetry_evcs(repo, evc_ids) ==
    LET NonInt(e) == repo[e].exists /\ ~ repo[e].archived
                     /\ ~ has_int_enabled(Snapshot(repo, e))
    IN  IF evc_ids # <<>> THEN evc_ids ELSE SelectSeq(EvcOrder, NonInt)

\* Main.enable_telemetry(request): the stored INT flows of the circuits are removed,
\* then enable_int validates
enable_telemetry(m, evc_ids, force, fault) ==
    LET ids == enable_telemetry_evcs(m.evcs, evc_ids)
        stored_flows == get_stored_flows(m.flows, ids, INT_COOKIE_PREFIX)
    IN  IF fault = "get_evcs" THEN Raise(m, FaultExc(fault))
        ELSE IF ids = <<>> THEN m
        ELSE IF fault = "get_stored_flows" THEN Raise(m, FaultExc(fault))
        ELSE enable_int(emit(m, remove_events(stored_flows, BATCH_SIZE)), ids,
                        Snapshots(m.evcs), force, "none")

(***************************************************************************)
(* The state machine. A call runs from an idle state and leaves its output *)
(* (result, buffer, metadata_calls) to be read until Return; the           *)
(* collaborators change between calls.                                     *)
(***************************************************************************)
IdleCall == [op |-> "idle"]
Idle == call.op = "idle"

\* the sets of circuits a caller passes: the dict's keys in order
EvcSeqs == {<<"e1">>, <<"e2">>, <<"e1", "e2">>, <<"e2", "e1">>}

UniMetaDomain ==
    [u \in Unis |->
        CASE u = "s1:11" -> {"1"}
          [] u = "s1:12" -> {"1", "2"}
          [] OTHER -> {"unknown", "none", "1", "9"}]

LoopDomain ==
    [x \in SrcIds |->
        CASE x = "s1:1" -> {"nolink", "DOWN", "UP"}
          [] x = "s1:2" -> {"UP"}
          [] OTHER -> {"DOWN", "UP"}]

NewEvc == [exists |-> TRUE, archived |-> FALSE, active |-> TRUE, telemetry |-> NoTelemetry]
NoEvc == [exists |-> FALSE, archived |-> FALSE, active |-> FALSE, telemetry |-> NoTelemetry]

M == [evcs |-> evcs, flows |-> flows, srcs_pp |-> srcs_pp, unis_src |-> unis_src,
      buffer |-> <<>>, metadata_calls |-> <<>>, result |-> "ok"]

Commit(m) ==
    /\ evcs' = m.evcs
    /\ flows' = m.flows
    /\ srcs_pp' = m.srcs_pp
    /\ unis_src' = m.unis_src
    /\ buffer' = m.buffer
    /\ metadata_calls' = m.metadata_calls
    /\ result' = m.result
    /\ UNCHANGED <<uni_meta, loop, BATCH_SIZE>>

Card(S) == Cardinality(S)

BaseFlows(e) == {MefFlowsOf(e)[k] : k \in 1..Len(MefFlowsOf(e))}

\* what is out of order: absent or inactive circuits, circuits without base flows, UNIs
\* whose proxy_port metadata is not the planned one, loops that are not up
Anomalies(repo, store, meta, links) ==
    Card({e \in EvcIds : ~ repo[e].exists \/ ~ repo[e].active})
    + Card({e \in EvcIds : ~ BaseFlows(e) \subseteq store})
    + Card({u \in Unis : meta[u] # (IF u = "s1:12" THEN "2" ELSE "1")})
    + Card({x \in SrcIds : links[x] # "UP"})

Init ==
    /\ evcs = [e \in EvcIds |-> NewEvc]
    /\ flows = UNION {BaseFlows(e) : e \in EvcIds}
    /\ uni_meta = [u \in Unis |-> IF u = "s1:12" THEN "2" ELSE "1"]
    /\ loop = [x \in SrcIds |-> "UP"]
    /\ unis_src = <<>>
    /\ srcs_pp = <<>>
    /\ BATCH_SIZE = 2
    /\ call = IdleCall
    /\ result = "ok"
    /\ buffer = <<>>
    /\ metadata_calls = <<>>

\* the (switch, cookie) pairs of the telemetry flows stored for the circuits
StoredPairs(store, ids) ==
    LET stored == get_stored_flows(store, ids, INT_COOKIE_PREFIX)
    IN  {[switch |-> stored[k].switch, cookie |-> stored[k].flow.cookie] : k \in 1..Len(stored)}

EnableInt ==
    /\ Idle
    /\ \E ids \in EvcSeqs, force \in BOOLEAN,
          fault \in {"none", "get_stored_flows", "add_evcs_metadata"} :
          /\ call' = [op |-> "enable_int", ids |-> ids, force |-> force,
                      snap |-> Snapshots(evcs)]
          /\ Commit(enable_int(M, ids, Snapshots(evcs), force, fault))

DisableInt ==
    /\ Idle
    /\ \E ids \in EvcSeqs, force \in BOOLEAN,
          fault \in {"none", "get_stored_flows", "add_evcs_metadata"} :
          /\ call' = [op |-> "disable_int", ids |-> ids, force |-> force,
                      snap |-> Snapshots(evcs), found |-> StoredPairs(flows, ids)]
          /\ Commit(disable_int(M, ids, Snapshots(evcs), force, fault))

RedeployInt ==
    /\ Idle
    /\ \E ids \in EvcSeqs, fault \in {"none", "get_stored_flows", "add_evcs_metadata"} :
          /\ call' = [op |-> "redeploy_int", ids |-> ids, force |-> TRUE,
                      snap |-> Snapshots(evcs)]
          /\ Commit(redeploy_int(M, ids, Snapshots(evcs), fault))

HandlePpLinkDown ==
    /\ Idle
    /\ \E link \in Links, fallback \in BOOLEAN,
          fault \in {"none", "get_evcs", "get_stored_flows", "add_evcs_metadata"} :
          /\ call' = [op |-> "handle_pp_link_down", link |-> link, fallback |-> fallback,
                      snap |-> Snapshots(evcs)]
          /\ Commit(handle_pp_link_down(M, link, fallback, fault))

HandlePpLinkUp ==
    /\ Idle
    /\ \E link \in Links, fallback \in BOOLEAN,
          fault \in {"none", "get_evcs", "get_stored_flows", "add_evcs_metadata"} :
          /\ call' = [op |-> "handle_pp_link_up", link |-> link, fallback |-> fallback,
                      snap |-> Snapshots(evcs)]
          /\ Commit(handle_pp_link_up(M, link, fallback, fault))

\* the call's output has been read
Return ==
    /\ ~ Idle
    /\ call' = IdleCall
    /\ result' = "ok"
    /\ buffer' = <<>>
    /\ metadata_calls' = <<>>
    /\ UNCHANGED <<evcs, flows, uni_meta, loop, unis_src, srcs_pp, BATCH_SIZE>>

Quiet == UNCHANGED <<unis_src, srcs_pp, BATCH_SIZE, call, result, buffer, metadata_calls>>

\* topology: a loop's link goes down, comes up, is removed or added
LinkChange ==
    /\ Idle
    /\ \E x \in SrcIds : \E v \in LoopDomain[x] :
          /\ v # loop[x]
          /\ loop' = [loop EXCEPT ![x] = v]
    /\ UNCHANGED <<evcs, flows, uni_meta>>
    /\ Anomalies(evcs', flows', uni_meta', loop') <= MaxAnomalies
    /\ Quiet

\* topology: a UNI's proxy_port metadata is set or removed, or the interface goes
InterfaceChange ==
    /\ Idle
    /\ \E u \in Unis : \E v \in UniMetaDomain[u] :
          /\ v # uni_meta[u]
          /\ uni_meta' = [uni_meta EXCEPT ![u] = v]
    /\ UNCHANGED <<evcs, flows, loop>>
    /\ Anomalies(evcs', flows', uni_meta', loop') <= MaxAnomalies
    /\ Quiet

\* mef_eline: a circuit is created, deleted, activated or deactivated
EvcChange ==
    /\ Idle
    /\ \E e \in EvcIds :
          \/ /\ evcs[e].exists
             /\ evcs' = [evcs EXCEPT ![e].active = ~ @]
          \/ /\ evcs[e].exists
             /\ e = "e2"
             /\ evcs' = [evcs EXCEPT ![e] = NoEvc]
          \/ /\ ~ evcs[e].exists
             /\ evcs' = [evcs EXCEPT ![e] = NewEvc]
    /\ UNCHANGED <<flows, uni_meta, loop>>
    /\ Anomalies(evcs', flows', uni_meta', loop') <= MaxAnomalies
    /\ Quiet

\* flow_manager: a circuit's base flows are installed or removed
BaseFlowsChange ==
    /\ Idle
    /\ \E e \in EvcIds :
          flows' = IF BaseFlows(e) \subseteq flows THEN flows \ BaseFlows(e)
                   ELSE flows \cup BaseFlows(e)
    /\ UNCHANGED <<evcs, uni_meta, loop>>
    /\ Anomalies(evcs', flows', uni_meta', loop') <= MaxAnomalies
    /\ Quiet

Next ==
    \/ EnableInt
    \/ DisableInt
    \/ RedeployInt
    \/ HandlePpLinkDown
    \/ HandlePpLinkUp
    \/ Return
    \/ LinkChange
    \/ InterfaceChange
    \/ EvcChange
    \/ BaseFlowsChange

Spec == Init /\ [][Next]_vars

(***************************************************************************)
(* The interface metadata events on their own: the operators enable and    *)
(* disable circuits, the topology sets, changes and removes the proxy_port *)
(* metadata of UNI s1:11 (which both circuits use), and the interface      *)
(* events are handled. The loop of s1:2 is there or not from the start.    *)
(***************************************************************************)
MetaDomain ==
    [u \in Unis |->
        CASE u = "s1:11" -> {"none", "1", "2"}
          [] u = "s1:12" -> {"2"}
          [] OTHER -> {"1"}]

MetaInit ==
    /\ evcs = [e \in EvcIds |-> NewEvc]
    /\ flows = UNION {BaseFlows(e) : e \in EvcIds}
    /\ uni_meta = [u \in Unis |-> IF u = "s1:12" THEN "2" ELSE "1"]
    /\ loop \in [SrcIds -> {"nolink", "UP"}]
    /\ loop["s1:1"] = "UP" /\ loop["s2:1"] = "UP"
    /\ unis_src = <<>>
    /\ srcs_pp = <<>>
    /\ BATCH_SIZE = 2
    /\ call = IdleCall
    /\ result = "ok"
    /\ buffer = <<>>
    /\ metadata_calls = <<>>

\* the interfaces an event can carry: those the topology knows
HandlePpMetadataRemoved ==
    /\ Idle
    /\ \E intf \in {u \in Unis : uni_meta[u] # "unknown"},
          fault \in {"none", "get_evcs", "get_stored_flows", "add_evcs_metadata"} :
          /\ call' = [op |-> "handle_pp_metadata_removed", intf |-> intf,
                      snap |-> Snapshots(evcs), pp |-> indexed_pp(M, intf), pps |-> srcs_pp]
          /\ Commit(handle_pp_metadata_removed(M, intf, fault))

HandlePpMetadataAdded ==
    /\ Idle
    /\ \E intf \in {u \in Unis : uni_meta[u] # "unknown"},
          fault \in {"none", "get_evcs", "get_stored_flows", "add_evcs_metadata"} :
          /\ call' = [op |-> "handle_pp_metadata_added", intf |-> intf,
                      snap |-> Snapshots(evcs), pp |-> indexed_pp(M, intf), pps |-> srcs_pp]
          /\ \E fetched \in {metadata_added_fetch(M, intf, fault)} :
             \E first \in {metadata_added_call(metadata_added_calls[1], fetched,
                                               fetched.m, fault)} :
             \E second \in {metadata_added_call(metadata_added_calls[2], fetched,
                                                first, fault)} :
             \E done \in {metadata_added_except(second)} :
                Commit(done)

\* topology: the proxy_port metadata of a UNI is set, changed or removed
MetadataChange ==
    /\ Idle
    /\ \E u \in Unis : \E v \in MetaDomain[u] :
          /\ v # uni_meta[u]
          /\ uni_meta' = [uni_meta EXCEPT ![u] = v]
    /\ UNCHANGED <<evcs, flows, loop>>
    /\ Quiet

MetaNext ==
    \/ EnableInt
    \/ DisableInt
    \/ HandlePpMetadataRemoved
    \/ HandlePpMetadataAdded
    \/ MetadataChange
    \/ Return

MetaSpec == MetaInit /\ [][MetaNext]_vars

(***************************************************************************)
(* Failover events on their own: the operators enable circuits, the        *)
(* topology removes and restores the proxy_port metadata of the UNIs s1:11 *)
(* and s2:11, and failover events arrive for both circuits, each with any  *)
(* of its base flows as fresh or as stale fragments.                       *)
(***************************************************************************)
FailoverDomain ==
    [u \in Unis |-> IF u = "s1:12" THEN {"2"} ELSE {"none", "1"}]

\* the base flows of circuit e whose match is in S, as fragments of an event
Fragments(e, S) ==
    LET InS(f) == f.flow.match \in S
    IN  SelectSeq(MefFlowsOf(e), InS)

\* what an event can say of circuit e: no base flow is both fresh and stale
FailoverItems(e) ==
    {[id |-> e, flows |-> Fragments(e, F), removed_flows |-> Fragments(e, R)] :
        <<F, R>> \in {x \in (SUBSET {1, 2}) \X (SUBSET {1, 2}) : x[1] \cap x[2] = {}}}

HandleFailoverFlows ==
    /\ Idle
    /\ \E a \in FailoverItems("e1"), b \in FailoverItems("e2"),
          fault \in {"none", "get_stored_flows", "add_evcs_metadata"} :
          /\ call' = [op |-> "handle_failover_flows", content |-> <<a, b>>,
                      snap |-> Snapshots(evcs), stored |-> flows]
          /\ \E done \in {handle_failover_flows(M, <<a, b>>, Snapshots(evcs), fault)} :
                Commit(done)

\* topology: the proxy_port metadata of a UNI is removed or set again
FailoverMetadataChange ==
    /\ Idle
    /\ \E u \in Unis : \E v \in FailoverDomain[u] :
          /\ v # uni_meta[u]
          /\ uni_meta' = [uni_meta EXCEPT ![u] = v]
    /\ UNCHANGED <<evcs, flows, loop>>
    /\ Quiet

FailoverNext ==
    \/ EnableInt
    \/ HandleFailoverFlows
    \/ FailoverMetadataChange
    \/ Return

FailoverSpec == Init /\ [][FailoverNext]_vars

(***************************************************************************)
(* Two topology link events handled at once. Each handler is a task that   *)
(* runs from one suspension point to the next: up to `async with           *)
(* self._topo_link_lock` (where it waits if the lock is held), up to the   *)
(* answer of api.get_evcs, and through remove_int_flows or                 *)
(* install_int_flows to its end. call holds the lock's holder (0 when      *)
(* free) and the two tasks; buffer and metadata_calls collect what both    *)
(* dispatch. The circuits are enabled from the start.                      *)
(***************************************************************************)
Tasks == {1, 2}

\* a lock that is free whoever holds it
topo_link_lock_ignored(lock) == TRUE

\* not self._topo_link_lock.locked()
topo_link_lock_free(lock) == lock = 0

\* the handlers before the lock: the ProxyPort of the link, None for the early returns
link_event_pp(pps, link, fallback) ==
    IF ~ fallback THEN None
    ELSE IF link_pp(pps, link) = None THEN None
    ELSE IF pps[link_pp(pps, link)].evc_ids = {} THEN None
    ELSE link_pp(pps, link)

\* handle_pp_link_down from the answer of api.get_evcs to the call of remove_int_flows
link_down_to_deactivate(m, pp) ==
    LET InPp(e) == e \in m.srcs_pp[pp].evc_ids
    IN  SelectSeq(get_evcs_with_status(m.evcs, "UP"), InPp)

\* handle_pp_link_up from the answer of api.get_evcs to _validate_map_enable_evcs
link_up_to_install(m, pp) ==
    LET snap == Snapshots(m.evcs)
        Candidate(e) ==
            /\ snap[e].active
            /\ ~ snap[e].archived
            /\ e \in m.srcs_pp[pp].evc_ids
            /\ get_evc_unis(snap[e]).uni_a \in DOMAIN m.unis_src
            /\ get_evc_unis(snap[e]).uni_z \in DOMAIN m.unis_src
            /\ LET src_a_id == m.unis_src[get_evc_unis(snap[e]).uni_a]
                   src_z_id == m.unis_src[get_evc_unis(snap[e]).uni_z]
               IN  /\ src_a_id \in DOMAIN m.srcs_pp
                   /\ src_z_id \in DOMAIN m.srcs_pp
                   /\ pp_status(m.srcs_pp[src_a_id]) = "UP"
                   /\ pp_status(m.srcs_pp[src_z_id]) = "UP"
    IN  SelectSeq(get_evcs_with_status(m.evcs, "DOWN"), Candidate)

\* await self.remove_int_flows(to_deactivate, metadata) of handle_pp_link_down
link_down_mutate(m, ids, snap, fault) ==
    remove_int_flows(m, ids, snap, Telemetry(TRUE, "DOWN", <<"proxy_port_down">>), FALSE, fault)

\* await self.install_int_flows(to_install, metadata) of handle_pp_link_up
link_up_mutate(m, ids, snap, fault) ==
    install_int_flows(m, ids, snap, Telemetry(TRUE, "UP", <<>>), FALSE, fault)

\* except FlowsNotFound: log.exception
link_up_except(m) == IF m.result = "FlowsNotFound" THEN Raise(m, "ok") ELSE m

IntFlows(e) == {IntFlowsOf(e)[k] : k \in 1..Len(IntFlowsOf(e))}

\* both circuits enabled, one after the other, and every loop up
LockInit ==
    /\ evcs = [e \in EvcIds |-> [NewEvc EXCEPT !.telemetry = Telemetry(TRUE, "UP", <<>>)]]
    /\ flows = UNION {BaseFlows(e) \cup IntFlows(e) : e \in EvcIds}
    /\ uni_meta = [u \in Unis |-> IF u = "s1:12" THEN "2" ELSE "1"]
    /\ loop = [x \in SrcIds |-> "UP"]
    /\ unis_src = [u \in Unis |-> get_interface_by_port_no(SwitchOf(u), uni_meta[u])]
    /\ srcs_pp = [x \in SrcIds |->
                     [ProxyPort(x) EXCEPT
                         !.evc_ids = {e \in EvcIds :
                                         x \in {unis_src[EvcUnis[e].uni_a],
                                                unis_src[EvcUnis[e].uni_z]}}]]
    /\ BATCH_SIZE = 2
    /\ call = IdleCall
    /\ result = "ok"
    /\ buffer = <<>>
    /\ metadata_calls = <<>>

InLinkEvents == call.op = "link_events"

\* the record an operation works on, with what the tasks have dispatched so far
Mcur == [M EXCEPT !.buffer = buffer, !.metadata_calls = metadata_calls]

\* the task past `async with self._topo_link_lock`, up to its first await: handle_pp_link_up
\* returns there for a link that is not UP
entered(task, link) ==
    IF task.kind = "up" /\ (link.status # "UP" \/ link.status_reason # {})
    THEN [task EXCEPT !.pc = "done"]
    ELSE [task EXCEPT !.pc = "get_evcs"]

\* topology: two link events, each a link_down or a link_up of one of the loops
Arrive ==
    /\ Idle
    /\ \E kinds \in [Tasks -> {"down", "up"}], srcs \in [Tasks -> SrcIds],
          fallback \in BOOLEAN :
          call' = [op |-> "link_events", lock |-> 0, fallback |-> fallback,
                   snap |-> Snapshots(evcs),
                   tasks |-> [h \in Tasks |->
                                 [pc |-> "start", kind |-> kinds[h], src |-> srcs[h],
                                  pp |-> None, ids |-> <<>>, snap |-> Snapshots(evcs),
                                  waited |-> FALSE, result |-> "ok"]]]
    /\ UNCHANGED <<evcs, flows, uni_meta, loop, unis_src, srcs_pp, BATCH_SIZE, result,
                   buffer, metadata_calls>>

\* a handler starts: its early returns, then the lock, taken at once when it is free
Begin ==
    /\ InLinkEvents
    /\ \E h \in Tasks :
          /\ call.tasks[h].pc = "start"
          /\ \E pp \in {link_event_pp(srcs_pp, Link(call.tasks[h].src), call.fallback)} :
             \E found \in {[call.tasks[h] EXCEPT !.pp = pp]} :
             \E task \in {IF pp = None THEN [found EXCEPT !.pc = "done"]
                          ELSE IF topo_link_lock_free(call.lock)
                          THEN entered(found, Link(found.src))
                          ELSE [found EXCEPT !.pc = "lock", !.waited = TRUE]} :
                call' = [call EXCEPT !.tasks[h] = task,
                                     !.lock = IF task.pc = "get_evcs" THEN h ELSE @]
    /\ UNCHANGED <<evcs, flows, uni_meta, loop, unis_src, srcs_pp, BATCH_SIZE, result,
                   buffer, metadata_calls>>

\* a waiting handler gets the lock
Acquire ==
    /\ InLinkEvents
    /\ \E h \in Tasks :
          /\ call.tasks[h].pc = "lock"
          /\ topo_link_lock_free(call.lock)
          /\ \E task \in {entered(call.tasks[h], Link(call.tasks[h].src))} :
                call' = [call EXCEPT !.tasks[h] = task,
                                     !.lock = IF task.pc = "get_evcs" THEN h ELSE @]
    /\ UNCHANGED <<evcs, flows, uni_meta, loop, unis_src, srcs_pp, BATCH_SIZE, result,
                   buffer, metadata_calls>>

\* api.get_evcs answers (or fails): the handler decides, and either leaves the section or
\* goes on to its await of remove_int_flows / install_int_flows
GetEvcs ==
    /\ InLinkEvents
    /\ \E h \in Tasks, fault \in {"none", "get_evcs"} :
          /\ call.tasks[h].pc = "get_evcs"
          /\ \E ids \in {IF call.tasks[h].kind = "down"
                         THEN link_down_to_deactivate(M, call.tasks[h].pp)
                         ELSE link_up_to_install(M, call.tasks[h].pp)} :
             \E v \in {IF call.tasks[h].kind = "down" \/ fault # "none"
                       THEN [exc |-> "ok", srcs_pp |-> srcs_pp]
                       ELSE validate_map_enable_evcs(ids, Snapshots(evcs), TRUE, srcs_pp)} :
             \E task \in {IF fault # "none"
                          THEN [call.tasks[h] EXCEPT !.pc = "done", !.result = FaultExc(fault)]
                          ELSE IF ids = <<>> \/ v.exc \in EVCError
                          THEN [call.tasks[h] EXCEPT !.pc = "done"]
                          ELSE [call.tasks[h] EXCEPT !.pc = "mutate", !.ids = ids,
                                                     !.snap = Snapshots(evcs)]} :
                /\ call' = [call EXCEPT !.tasks[h] = task,
                                        !.lock = IF task.pc = "done" THEN 0 ELSE @]
                /\ srcs_pp' = IF ids = <<>> THEN srcs_pp ELSE v.srcs_pp
    /\ UNCHANGED <<evcs, flows, uni_meta, loop, unis_src, BATCH_SIZE, result,
                   buffer, metadata_calls>>

\* the handler's removal or installation, and its leaving the section
Mutate ==
    /\ InLinkEvents
    /\ \E h \in Tasks, fault \in {"none", "get_stored_flows", "add_evcs_metadata"} :
          /\ call.tasks[h].pc = "mutate"
          /\ \E done \in {IF call.tasks[h].kind = "down"
                          THEN link_down_mutate(Mcur, call.tasks[h].ids,
                                                call.tasks[h].snap, fault)
                          ELSE link_up_except(link_up_mutate(Mcur, call.tasks[h].ids,
                                                             call.tasks[h].snap, fault))} :
                /\ Commit(done)
                /\ call' = [call EXCEPT !.tasks[h].pc = "done",
                                        !.tasks[h].result = done.result,
                                        !.lock = 0]

\* both handlers are over and what they dispatched has been read
Settle ==
    /\ InLinkEvents
    /\ \A h \in Tasks : call.tasks[h].pc = "done"
    /\ Return

\* topology: a loop's link goes down or comes up
LoopChange ==
    /\ Idle
    /\ \E x \in SrcIds :
          loop' = [loop EXCEPT ![x] = IF @ = "UP" THEN "DOWN" ELSE "UP"]
    /\ UNCHANGED <<evcs, flows, uni_meta>>
    /\ Quiet

LockNext ==
    \/ Arrive
    \/ Begin
    \/ Acquire
    \/ GetEvcs
    \/ Mutate
    \/ Settle
    \/ LoopChange

LockSpec == LockInit /\ [][LockNext]_vars

(***************************************************************************)
(* The event listeners on their own, on a topology that stays as it is:    *)
(* the operators enable and disable circuits, mef_eline deletes one,       *)
(* flow_manager reports flow errors, and the events are handled.           *)
(***************************************************************************)
\* the flow errors flow_manager can report: of a telemetry or a base flow of a circuit
FlowErrors ==
    {[error_exception |-> x, error_command |-> c, cookie |-> get_cookie(e, p)] :
        x \in BOOLEAN, c \in {"add", "delete"}, e \in EvcIds,
        p \in {INT_COOKIE_PREFIX, MEF_COOKIE_PREFIX}}

OnFlowModError ==
    /\ Idle
    /\ \E event \in FlowErrors,
          fault \in {"none", "get_evc", "get_stored_flows", "add_evcs_metadata"} :
          /\ call' = [op |-> "on_flow_mod_error", event |-> event,
                      snap |-> Snapshots(evcs), snap_all |-> evcs,
                      stored |-> flows, pps |-> srcs_pp]
          /\ \E done \in {on_flow_mod_error(M, event, fault)} : Commit(done)

OnEvcDeleted ==
    /\ Idle
    /\ \E e \in {x \in EvcIds : evcs[x].exists /\ evcs[x].archived},
          fault \in {"none", "get_stored_flows", "add_evcs_metadata"} :
          /\ call' = [op |-> "on_evc_deleted", ids |-> <<e>>, force |-> TRUE,
                      snap |-> Snapshots(evcs), pps |-> srcs_pp]
          /\ \E done \in {on_evc_deleted(M, Snapshot(evcs, e), fault)} : Commit(done)

\* mef_eline: a circuit is deleted, that is archived
EvcDeleted ==
    /\ Idle
    /\ \E e \in EvcIds :
          /\ evcs[e].exists /\ ~ evcs[e].archived
          /\ evcs' = [evcs EXCEPT ![e].archived = TRUE, ![e].active = FALSE]
    /\ UNCHANGED <<flows, uni_meta, loop>>
    /\ Quiet

ErrorNext ==
    \/ EnableInt
    \/ DisableInt
    \/ OnFlowModError
    \/ OnEvcDeleted
    \/ EvcDeleted
    \/ Return

ErrorSpec == Init /\ [][ErrorNext]_vars

(***************************************************************************)
(* A first enable_int and a link_down of a ProxyPort's loop at once.       *)
(* enable_int is a task that runs from one suspension point to the next:   *)
(* _validate_map_enable_evcs up to the await of the base flows, then the   *)
(* build, the validation and the partition by the ProxyPorts' status up to *)
(* asyncio.gather, then the dispatch, then the metadata updates, then      *)
(* _add_pps_evc_ids. The link goes down at any of these points, and        *)
(* handle_pp_link_down runs from its early returns to api.get_evcs to      *)
(* remove_int_flows. call holds both tasks.                                *)
(***************************************************************************)
\* install_int_flows from the answer of get_found_stored_flows to asyncio.gather
install_partition(m, ids, snap) ==
    LET built == build_int_flows(ids, get_stored_flows(m.flows, ids, MEF_COOKIE_PREFIX))
        unis(e) == get_evc_unis(snap[e])
        Inactive(e) == ~ snap[e].active
        PpDown(e) == /\ snap[e].active
                     /\ \/ pp_status(mapped_pp(m.srcs_pp, unis(e).uni_a)) # "UP"
                        \/ pp_status(mapped_pp(m.srcs_pp, unis(e).uni_z)) # "UP"
        Active(e) == ~ Inactive(e) /\ ~ PpDown(e)
    IN  [exc |-> validate_evcs_stored_flows(ids, snap, built), built |-> built,
         inactive |-> SelectSeq(ids, Inactive), pp_down |-> SelectSeq(ids, PpDown),
         active |-> SelectSeq(ids, Active)]

\* the three api.add_evcs_metadata of the gather
install_update(m, part, snap, metadata, force) ==
    LET inactive_metadata == [metadata EXCEPT !.status = "DOWN", !.status_reason = <<"no_flows">>]
        pp_down_metadata ==
            [metadata EXCEPT !.status = "DOWN", !.status_reason = <<"proxy_port_down">>]
        m2 == add_evcs_metadata(m, part.inactive, snap, inactive_metadata, force, "none")
        m3 == add_evcs_metadata(m2, part.pp_down, snap, pp_down_metadata, force, "none")
    IN  add_evcs_metadata(m3, part.active, snap, metadata, force, "none")

InRace == call.op = "enable_and_link_down"

\* enable_int(evcs) is called: _validate_map_enable_evcs, then the await of the base flows
StartEnable ==
    /\ Idle
    /\ \E ids \in EvcSeqs, fallback \in BOOLEAN :
       \E v \in {validate_map_enable_evcs(ids, Snapshots(evcs), FALSE, srcs_pp)} :
          /\ call' = [op |-> "enable_and_link_down", ids |-> ids, force |-> FALSE,
                      snap |-> Snapshots(evcs), fallback |-> fallback,
                      enable |-> [pc |-> IF v.exc = "ok" THEN "fetch" ELSE "done",
                                  part |-> [exc |-> "ok", built |-> <<>>, inactive |-> <<>>,
                                           pp_down |-> <<>>, active |-> <<>>]],
                      down |-> [pc |-> "none", src |-> None, at |-> None, pp |-> None,
                                ids |-> <<>>, snap |-> Snapshots(evcs), result |-> "ok"]]
          /\ srcs_pp' = v.srcs_pp
          /\ result' = v.exc
    /\ UNCHANGED <<evcs, flows, uni_meta, loop, unis_src, BATCH_SIZE, buffer, metadata_calls>>

\* the base flows arrive: build, validate, partition
EnableFetched ==
    /\ InRace
    /\ call.enable.pc = "fetch"
    /\ \E part \in {install_partition(M, call.ids, call.snap)} :
          /\ call' = [call EXCEPT !.enable.part = part,
                                  !.enable.pc = IF part.exc = "ok" THEN "dispatch" ELSE "done"]
          /\ result' = part.exc
    /\ UNCHANGED <<evcs, flows, uni_meta, loop, unis_src, srcs_pp, BATCH_SIZE, buffer,
                   metadata_calls>>

\* the install commands are put on the buffer
EnableDispatched ==
    /\ InRace
    /\ call.enable.pc = "dispatch"
    /\ \E done \in {emit(Mcur, install_events(call.enable.part.built, BATCH_SIZE))} :
          Commit(done)
    /\ call' = [call EXCEPT !.enable.pc = "update"]

\* mef_eline applies the metadata updates
EnableUpdated ==
    /\ InRace
    /\ call.enable.pc = "update"
    /\ \E done \in {install_update(Mcur, call.enable.part, call.snap,
                                   Telemetry(TRUE, "UP", <<>>), FALSE)} :
          /\ Commit(done)
          /\ call' = [call EXCEPT !.enable.pc = IF done.result = "ok" THEN "register"
                                                ELSE "done"]

\* the gather is over: _add_pps_evc_ids
EnableRegistered ==
    /\ InRace
    /\ call.enable.pc = "register"
    /\ \E done \in {add_pps_evc_ids(Mcur, call.ids, call.snap)} : Commit(done)
    /\ call' = [call EXCEPT !.enable.pc = "done"]

\* topology: the link of a loop goes down while enable_int is under way
LinkGoesDown ==
    /\ InRace
    /\ call.enable.pc # "done"
    /\ call.down.pc = "none"
    /\ \E x \in SrcIds :
          /\ loop[x] = "UP"
          /\ loop' = [loop EXCEPT ![x] = "DOWN"]
          /\ call' = [call EXCEPT !.down.pc = "start", !.down.src = x,
                                  !.down.at = call.enable.pc]
    /\ UNCHANGED <<evcs, flows, uni_meta, unis_src, srcs_pp, BATCH_SIZE, result, buffer,
                   metadata_calls>>

\* handle_pp_link_down starts: its early returns, then the lock, which is free
DownBegin ==
    /\ InRace
    /\ call.down.pc = "start"
    /\ \E pp \in {link_event_pp(srcs_pp, Link(call.down.src), call.fallback)} :
          call' = [call EXCEPT !.down.pp = pp,
                               !.down.pc = IF pp = None THEN "done" ELSE "get_evcs"]
    /\ UNCHANGED <<evcs, flows, uni_meta, loop, unis_src, srcs_pp, BATCH_SIZE, result,
                   buffer, metadata_calls>>

\* api.get_evcs answers: to_deactivate
DownGetEvcs ==
    /\ InRace
    /\ call.down.pc = "get_evcs"
    /\ \E ids \in {link_down_to_deactivate(M, call.down.pp)} :
          call' = [call EXCEPT !.down.ids = ids, !.down.snap = Snapshots(evcs),
                               !.down.pc = IF ids = <<>> THEN "done" ELSE "mutate"]
    /\ UNCHANGED <<evcs, flows, uni_meta, loop, unis_src, srcs_pp, BATCH_SIZE, result,
                   buffer, metadata_calls>>

\* remove_int_flows(to_deactivate, metadata)
DownMutate ==
    /\ InRace
    /\ call.down.pc = "mutate"
    /\ \E done \in {link_down_mutate(Mcur, call.down.ids, call.down.snap, "none")} :
          /\ Commit([done EXCEPT !.result = result])
          /\ call' = [call EXCEPT !.down.pc = "done", !.down.result = done.result]

\* both tasks are over and what they dispatched has been read
RaceSettle ==
    /\ InRace
    /\ call.enable.pc = "done"
    /\ call.down.pc \in {"none", "done"}
    /\ Return

RaceNext ==
    \/ StartEnable
    \/ EnableFetched
    \/ EnableDispatched
    \/ EnableUpdated
    \/ EnableRegistered
    \/ LinkGoesDown
    \/ DownBegin
    \/ DownGetEvcs
    \/ DownMutate
    \/ RaceSettle
    \/ LoopChange

RaceSpec == Init /\ [][RaceNext]_vars

(***************************************************************************)
(* The REST entry point on its own: requests to enable telemetry, the      *)
(* Manager's disable_int, and the loops going down and up.                 *)
(***************************************************************************)
EnableTelemetry ==
    /\ Idle
    /\ \E evc_ids \in EvcSeqs \cup {<<>>}, force \in BOOLEAN,
          fault \in {"none", "get_evcs", "get_stored_flows"} :
          /\ call' = [op |-> "enable_telemetry",
                      ids |-> enable_telemetry_evcs(evcs, evc_ids), force |-> force,
                      snap |-> Snapshots(evcs), snap_all |-> evcs, stored |-> flows,
                      pps |-> srcs_pp]
          /\ \E done \in {enable_telemetry(M, evc_ids, force, fault)} : Commit(done)

RestNext ==
    \/ EnableTelemetry
    \/ DisableInt
    \/ LoopChange
    \/ Return

RestSpec == Init /\ [][RestNext]_vars

(***************************************************************************)
(* What the claims speak of.                                               *)
(***************************************************************************)
RepositoryErrors == {"RetryError", "UnrecoverableError"}
NotFound == {"EVCNotFound", "FlowsNotFound", "ProxyPortNotFound", "ProxyPortDestNotFound"}

IsCall(op) == call.op = op
Prior(e) == call.snap[e]
InCall(e) == IsIn(e, call.ids)

\* the ProxyPort a UNI resolves to in the current topology and registry, if any
SourceKey(u) == get_interface_by_port_no(SwitchOf(u), uni_meta[u])
PpOf(u) == IF SourceKey(u) \in DOMAIN srcs_pp THEN srcs_pp[SourceKey(u)]
           ELSE ProxyPort(SourceKey(u))
Resolves(u) ==
    /\ uni_meta[u] \notin {"unknown", "none"}
    /\ SourceKey(u) # None
    /\ pp_destination(PpOf(u)) # None
PpUp(u) == Resolves(u) /\ pp_status(PpOf(u)) = "UP"
BothResolve(e) == Resolves(EvcUnis[e].uni_a) /\ Resolves(EvcUnis[e].uni_z)
BothUp(e) == PpUp(EvcUnis[e].uni_a) /\ PpUp(EvcUnis[e].uni_z)
SameSourceIntra(e) ==
    /\ BothResolve(e)
    /\ SwitchOf(EvcUnis[e].uni_a) = SwitchOf(EvcUnis[e].uni_z)
    /\ PpOf(EvcUnis[e].uni_a).source = PpOf(EvcUnis[e].uni_z).source

\* circuit e of the call passes the validation of enabling
PassesEnable(e, force) ==
    /\ Prior(e).present
    /\ force \/ ~ Prior(e).telemetry.enabled
    /\ BothResolve(e)
    /\ force \/ BothUp(e)
    /\ ~ SameSourceIntra(e)

\* the circuits before position k of the call's set pass it
EarlierPass(k, force) == \A j \in 1..(k - 1) : PassesEnable(call.ids[j], force)

Installs == {k \in 1..Len(buffer) : buffer[k].name = "install"}
Deletes == {k \in 1..Len(buffer) : buffer[k].name = "delete"}
NothingIssued == buffer = <<>> /\ metadata_calls = <<>>

(***************************************************************************)
(* C1. enable_int with force=false on a set that contains a circuit whose  *)
(* telemetry is already enabled raises Conflict (EVCHasINT).               *)
(* As stated it fails: the circuits are validated in the set's order and   *)
(* the first failure is the one raised.                                    *)
(***************************************************************************)
C1_AsStated ==
    (IsCall("enable_int") /\ ~ call.force
        /\ \E e \in EvcIds : InCall(e) /\ has_int_enabled(Prior(e)))
    => result = "EVCHasINT"

\* C1 amended: enable_int with force=false on a set that contains an already enabled
\* circuit raises a validation error, and that error is EVCHasINT when every circuit
\* before the enabled one in the set passes validation.
C1_EnableConflict ==
    \A k \in 1..2 :
        (IsCall("enable_int") /\ ~ call.force /\ k <= Len(call.ids)
            /\ has_int_enabled(Prior(call.ids[k])))
        => /\ result \in EVCError
           /\ EarlierPass(k, FALSE) => result = "EVCHasINT"

C1_Witness ==
    /\ IsCall("enable_int") /\ ~ call.force /\ Len(call.ids) = 2
    /\ ~ has_int_enabled(Prior(call.ids[1]))
    /\ has_int_enabled(Prior(call.ids[2]))
    /\ result = "EVCHasINT"

(***************************************************************************)
(* C2. enable_int with force=true always completes without raising when    *)
(* both endpoints of every circuit in the set resolve to a ProxyPort whose *)
(* status is UP, whatever the circuit's prior state.                       *)
(* As stated it fails even when every repository call succeeds: a          *)
(* same-switch circuit on one source and an active circuit without base    *)
(* flows still raise.                                                      *)
(***************************************************************************)
AllOf(P(_)) == \A k \in 1..Len(call.ids) : P(call.ids[k])
Existing(e) == Prior(e).present
HasBaseFlows(e) == \E k \in 1..Len(MefFlowsOf(e)) : MefFlowsOf(e)[k] \in flows

C2_AsStated ==
    (IsCall("enable_int") /\ call.force /\ AllOf(Existing) /\ AllOf(BothUp))
    => result \notin EVCError

\* C2 amended: enable_int with force=true raises no validation error when every circuit
\* of the set exists, both its endpoints resolve to UP ProxyPorts, a same-switch circuit
\* uses two different sources and every active circuit has base flows stored, whatever
\* the prior telemetry state; only a failing repository call can then make it raise.
C2_ForcedEnableCompletes ==
    LET Distinct(e) == ~ SameSourceIntra(e)
        WithBase(e) == Prior(e).active => HasBaseFlows(e)
    IN  (IsCall("enable_int") /\ call.force /\ AllOf(Existing) /\ AllOf(BothUp)
            /\ AllOf(Distinct) /\ AllOf(WithBase))
        => result \in {"ok"} \cup RepositoryErrors

C2_Witness ==
    /\ IsCall("enable_int") /\ call.force /\ Len(call.ids) = 2
    /\ AllOf(Existing) /\ AllOf(BothUp)
    /\ \E e \in EvcIds : Prior(e).telemetry.enabled /\ Prior(e).telemetry.status = "UP"
    /\ \E e \in EvcIds : ~ Prior(e).active
    /\ result = "ok"

(***************************************************************************)
(* C3. For a circuit whose two endpoints are on the same switch and        *)
(* resolve to ProxyPorts with the same source, enable_int raises           *)
(* ProxyPortSameSourceIntraEVC for both force values, and no install       *)
(* command or metadata update is issued.                                   *)
(* As stated it fails without force: an enabled circuit raises EVCHasINT   *)
(* and a ProxyPort that is down raises ProxyPortStatusNotUP before the     *)
(* sources are compared; an earlier circuit of the set can fail first.     *)
(***************************************************************************)
C3_AsStated ==
    (IsCall("enable_int")
        /\ \E e \in EvcIds : InCall(e) /\ Existing(e) /\ SameSourceIntra(e))
    => result = "ProxyPortSameSourceIntraEVC" /\ NothingIssued

\* C3 amended: for such a circuit enable_int raises a validation error and issues no
\* install command and no metadata update; the error is ProxyPortSameSourceIntraEVC
\* with force=true, and with force=false when the circuit is not yet enabled and its
\* ProxyPort is UP, provided the circuits before it in the set pass validation.
C3_SameSourceConflict ==
    \A k \in 1..2 :
        (IsCall("enable_int") /\ k <= Len(call.ids)
            /\ Existing(call.ids[k]) /\ SameSourceIntra(call.ids[k]))
        => /\ result \in EVCError
           /\ NothingIssued
           /\ (/\ EarlierPass(k, call.force)
               /\ call.force \/ (~ Prior(call.ids[k]).telemetry.enabled /\ BothUp(call.ids[k])))
              => result = "ProxyPortSameSourceIntraEVC"

C3_Witness ==
    /\ IsCall("enable_int") /\ call.force /\ Len(call.ids) = 2
    /\ Existing(call.ids[2]) /\ SameSourceIntra(call.ids[2])
    /\ Prior(call.ids[2]).telemetry.enabled
    /\ result = "ProxyPortSameSourceIntraEVC"
    /\ NothingIssued

(***************************************************************************)
(* C4. For an active circuit whose two ProxyPorts are UP, disable_int      *)
(* followed by enable_int(force=true) leaves its telemetry at enabled,     *)
(* status UP with empty reason, and the circuit id registered again in     *)
(* both ProxyPorts' evc_ids.                                               *)
(* As stated it fails, with every repository call succeeding, when the     *)
(* enable_int raises: the circuit's base flows are gone, its two endpoints *)
(* share a source, or another circuit of the set fails validation.         *)
(***************************************************************************)
Disabled(e) == Prior(e).telemetry = Telemetry(FALSE, "DOWN", <<"disabled">>)
Registered(e) ==
    /\ BothResolve(e)
    /\ e \in PpOf(EvcUnis[e].uni_a).evc_ids
    /\ e \in PpOf(EvcUnis[e].uni_z).evc_ids
Restored(e) == evcs[e].telemetry = Telemetry(TRUE, "UP", <<>>) /\ Registered(e)

UpdatesOf(e) == {k \in 1..Len(metadata_calls) : IsIn(e, metadata_calls[k].circuit_ids)}

ExpectedTelemetry(e) ==
    IF ~ Prior(e).active THEN Telemetry(TRUE, "DOWN", <<"no_flows">>)
    ELSE IF ~ BothUp(e) THEN Telemetry(TRUE, "DOWN", <<"proxy_port_down">>)
    ELSE Telemetry(TRUE, "UP", <<>>)

\* validation passed, the stored flows were fetched and checked
PastValidation == result \in {"ok", "UnrecoverableError"}

C5_OneUpdatePerCircuit ==
    \A e \in EvcIds :
        (IsCall("enable_int") /\ PastValidation /\ InCall(e))
        => /\ Card(UpdatesOf(e)) = 1
           /\ \A k \in UpdatesOf(e) : metadata_calls[k].telemetry = ExpectedTelemetry(e)

C5_Witness ==
    /\ IsCall("enable_int") /\ result = "ok" /\ Len(call.ids) = 2
    /\ Len(metadata_calls) = 2
    /\ \E e \in EvcIds : ExpectedTelemetry(e).status_reason = <<"proxy_port_down">>
    /\ \E e \in EvcIds : ExpectedTelemetry(e).status = "UP"

(***************************************************************************)
(* C6. enable_int dispatches install commands for the built telemetry      *)
(* rules of the whole circuit set regardless of partition: an inactive     *)
(* circuit's rules are still dispatched for install, and for an active     *)
(* circuit the install commands cover every switch for which a rule was    *)
(* built.                                                                  *)
(* The code does not do this when a switch has more rules than one batch:  *)
(* _send_flows sends only the first batch's rules.                         *)
(***************************************************************************)
BuiltRules(e) == {IntFlowOf(f) : f \in BaseFlows(e) \cap flows}
InstallsRule(r) == \E k \in Installs :
                       /\ buffer[k].dpid = r.switch
                       /\ \E j \in 1..Len(buffer[k].flows) : buffer[k].flows[j] = r.flow

C6_InstallsWholeSet ==
    \A e \in EvcIds :
        (IsCall("enable_int") /\ PastValidation /\ InCall(e))
        => \A r \in BuiltRules(e) : InstallsRule(r)

\* what does hold: every switch a rule was built for receives an install command
C6_EverySwitchCovered ==
    \A e \in EvcIds :
        (IsCall("enable_int") /\ PastValidation /\ InCall(e))
        => \A r \in BuiltRules(e) : \E k \in Installs : buffer[k].dpid = r.switch

C6_Witness ==
    /\ IsCall("enable_int") /\ result = "ok" /\ Len(call.ids) = 2
    /\ \E e \in EvcIds : ~ Prior(e).active /\ BuiltRules(e) # {}
    /\ Card(Installs) >= 2

(***************************************************************************)
(* C7. With the fallback flag (FALLBACK_TO_MEF_LOOP_DOWN) off,             *)
(* handle_pp_link_down performs no metadata update, dispatches no          *)
(* rule-delete command and leaves the registries unchanged, for any link   *)
(* and any registry contents; the same holds for handle_pp_link_up.        *)
(***************************************************************************)
C7_FallbackOffNoEffect ==
    [][(/\ Idle
        /\ call'.op \in {"handle_pp_link_down", "handle_pp_link_up"}
        /\ ~ call'.fallback)
       => /\ metadata_calls' = <<>>
          /\ buffer' = <<>>
          /\ evcs' = evcs
          /\ flows' = flows
          /\ srcs_pp' = srcs_pp
          /\ unis_src' = unis_src]_vars

\* a link of a ProxyPort with an enabled circuit goes down, the flag being off
C7_Witness ==
    /\ IsCall("handle_pp_link_down") /\ ~ call.fallback
    /\ call.link.status = "DOWN"
    /\ link_pp(srcs_pp, call.link) # None
    /\ \E e \in srcs_pp[link_pp(srcs_pp, call.link)].evc_ids :
           IsIn(e, get_evcs_with_status(evcs, "UP"))
    /\ NothingIssued

(***************************************************************************)
(* C10. ProxyPort resolution is never bypassable: enable_int (force=false  *)
(* or force=true) and redeploy_int raise NotFound, and dispatch nothing,   *)
(* when an endpoint's attachment interface is unknown, has no proxy_port   *)
(* metadata, names a source interface that does not exist, or has a source *)
(* with no resolvable destination.                                         *)
(* As stated it fails: a check that comes before the resolution raises     *)
(* its own error (EVCHasINT without force, EVCHasNoINT in redeploy_int, an *)
(* earlier circuit's failure).                                             *)
(***************************************************************************)
Unresolved(e) == Existing(e) /\ ~ BothResolve(e)

C10_AsStated ==
    (call.op \in {"enable_int", "redeploy_int"}
        /\ \E e \in EvcIds : InCall(e) /\ Unresolved(e))
    => result \in NotFound /\ NothingIssued

\* C10 amended: in that case enable_int (either force) and redeploy_int raise a
\* validation error and dispatch nothing; the error is ProxyPortNotFound or
\* ProxyPortDestNotFound whenever the circuits before it in the set pass validation and
\* the circuit passes the telemetry-state check (enable_int without force: not yet
\* enabled; redeploy_int: every circuit of the set enabled).
C10_ResolutionMandatory ==
    LET Enabled(e) == Prior(e).telemetry.enabled
    IN  \A k \in 1..2 :
            (call.op \in {"enable_int", "redeploy_int"} /\ k <= Len(call.ids)
                /\ Unresolved(call.ids[k]))
            => /\ result \in EVCError
               /\ NothingIssued
               /\ (/\ EarlierPass(k, call.force)
                   /\ call.force \/ ~ Enabled(call.ids[k])
                   /\ IsCall("redeploy_int") => AllOf(Enabled))
                  => result \in {"ProxyPortNotFound", "ProxyPortDestNotFound"}

C10_Witness ==
    /\ IsCall("redeploy_int") /\ Len(call.ids) = 2
    /\ Unresolved(call.ids[2])
    /\ result = "ProxyPortDestNotFound"
    /\ NothingIssued

(***************************************************************************)
(* _send_flows on its own: any batch size setting, one or two switches,    *)
(* one to MaxFlows flows for each.                                         *)
(***************************************************************************)
SomeFlows(n) == [j \in 1..n |-> [cookie |-> get_cookie("e1", INT_COOKIE_PREFIX), match |-> j]]

SwitchFlows ==
    {<<[dpid |-> "s1", flows |-> SomeFlows(n)]>> : n \in 1..MaxFlows}
    \cup {<<[dpid |-> "s1", flows |-> SomeFlows(n[1])], [dpid |-> "s2", flows |-> SomeFlows(n[2])]>> :
             n \in (1..MaxFlows) \X (1..MaxFlows)}

SendInit ==
    /\ evcs = [e \in EvcIds |-> NewEvc]
    /\ flows = UNION {BaseFlows(e) : e \in EvcIds}
    /\ uni_meta = [u \in Unis |-> IF u = "s1:12" THEN "2" ELSE "1"]
    /\ loop = [x \in SrcIds |-> "UP"]
    /\ unis_src = <<>>
    /\ srcs_pp = <<>>
    /\ BATCH_SIZE \in -1..MaxBatch
    /\ call = IdleCall
    /\ result = "ok"
    /\ buffer = <<>>
    /\ metadata_calls = <<>>

SendFlows ==
    /\ Idle
    /\ \E switch_flows \in SwitchFlows, cmd \in {"install", "delete"} :
          /\ call' = [op |-> "_send_flows", switch_flows |-> switch_flows, cmd |-> cmd]
          /\ Commit(emit(M, send_flows(switch_flows, cmd, BATCH_SIZE)))

SendNext == SendFlows \/ Return

SendSpec == SendInit /\ [][SendNext]_vars

(***************************************************************************)
(* C8. Batched dispatch (_send_flows): N rules for one switch with batch   *)
(* size B>0 produce exactly ceil(N/B) commands, each holding at most B     *)
(* rules, with a pause only between consecutive batches and none before    *)
(* the first; with a non-positive batch size exactly one command holding   *)
(* all N rules is produced and no pause occurs.                            *)
(***************************************************************************)
CommandsTo(dpid) == {k \in 1..Len(buffer) : buffer[k].dpid = dpid /\ buffer[k].name = call.cmd}
PausesOf(dpid) == {k \in 1..Len(buffer) : buffer[k].dpid = dpid /\ buffer[k].name = "sleep"}
CeilDiv(n, b) == (n + b - 1) \div b

C8_Batching ==
    IsCall("_send_flows") =>
        \A i \in 1..Len(call.switch_flows) :
            LET dpid == call.switch_flows[i].dpid
                rules == call.switch_flows[i].flows
                N == Len(rules)
            IN  IF BATCH_SIZE > 0
                THEN /\ Card(CommandsTo(dpid)) = CeilDiv(N, BATCH_SIZE)
                     /\ \A k \in CommandsTo(dpid) : Len(buffer[k].flows) <= BATCH_SIZE
                     /\ Card(PausesOf(dpid)) = Card(CommandsTo(dpid)) - 1
                     /\ \A k \in PausesOf(dpid) :
                            k - 1 \in CommandsTo(dpid) /\ k + 1 \in CommandsTo(dpid)
                ELSE /\ Card(CommandsTo(dpid)) = 1
                     /\ \A k \in CommandsTo(dpid) : buffer[k].flows = rules
                     /\ PausesOf(dpid) = {}

C8_Witness ==
    /\ IsCall("_send_flows") /\ BATCH_SIZE = 3
    /\ Len(call.switch_flows) = 2
    /\ Len(call.switch_flows[2].flows) = 4
    /\ Card(CommandsTo("s2")) = 2
    /\ Card(PausesOf("s2")) = 1

(***************************************************************************)
(* evc_compare on its own: any stored flow dicts and circuits, the Manager *)
(* with an empty or a filled registry.                                     *)
(***************************************************************************)
Records(n, prefix, e) == [j \in 1..n |-> StoredFlow("s1", get_cookie(e, prefix), j)]

\* the dicts {cookie: [stored flow]} over the circuits' cookies of one prefix
StoredDicts(prefix) ==
    UNION {[{get_cookie(e, prefix) : e \in D} -> 0..MaxRecords] : D \in SUBSET EvcIds}

AsRecords(counts) == [k \in DOMAIN counts |-> Records(counts[k], k.prefix, k.id)]

CircuitDicts ==
    UNION {[D -> BOOLEAN] : D \in SUBSET EvcIds}

AsCircuits(enabled) ==
    [e \in DOMAIN enabled |->
        [id |-> e, present |-> TRUE, active |-> TRUE, archived |-> FALSE,
         telemetry |-> IF enabled[e] THEN Telemetry(TRUE, "UP", <<>>) ELSE NoTelemetry]]

FilledRegistry ==
    [srcs_pp |-> ("s1:1" :> [source |-> "s1:1", evc_ids |-> {"e2"}]
                  @@ "s2:1" :> [source |-> "s2:1", evc_ids |-> {"e2"}]),
     unis_src |-> ("s1:11" :> "s1:1" @@ "s2:11" :> "s2:1")]

CompareInit ==
    /\ evcs = [e \in EvcIds |-> NewEvc]
    /\ flows = UNION {BaseFlows(e) : e \in EvcIds}
    /\ uni_meta = [u \in Unis |-> IF u = "s1:12" THEN "2" ELSE "1"]
    /\ loop = [x \in SrcIds |-> "UP"]
    /\ \/ unis_src = <<>> /\ srcs_pp = <<>>
       \/ unis_src = FilledRegistry.unis_src /\ srcs_pp = FilledRegistry.srcs_pp
    /\ BATCH_SIZE = 2
    /\ call = IdleCall
    /\ result = "ok"
    /\ buffer = <<>>
    /\ metadata_calls = <<>>

EvcCompare ==
    /\ Idle
    /\ \E int_counts \in StoredDicts(INT_COOKIE_PREFIX), mef_counts \in StoredDicts(MEF_COOKIE_PREFIX),
          enabled \in CircuitDicts :
          call' = [op |-> "evc_compare",
                   stored_int_flows |-> AsRecords(int_counts),
                   stored_mef_flows |-> AsRecords(mef_counts),
                   evcs |-> AsCircuits(enabled),
                   results |-> evc_compare(AsRecords(int_counts), AsRecords(mef_counts),
                                           AsCircuits(enabled))]
    /\ UNCHANGED <<evcs, flows, uni_meta, loop, unis_src, srcs_pp, BATCH_SIZE, result,
                   buffer, metadata_calls>>

CompareNext == EvcCompare \/ Return

CompareSpec == CompareInit /\ [][CompareNext]_vars

(***************************************************************************)
(* C9. evc_compare flags a circuit "wrong_metadata_has_int_flows" exactly  *)
(* when its telemetry is disabled and a non-empty telemetry rule record    *)
(* exists for it, and "missing_some_int_flows" exactly when its telemetry  *)
(* is enabled, base rule records exist for it, and its telemetry rule      *)
(* records are absent or fewer than its base rule records; it mutates      *)
(* neither its inputs nor the Manager's state.                             *)
(***************************************************************************)
RecordsFor(stored, prefix, e) ==
    IF get_cookie(e, prefix) \in DOMAIN stored THEN stored[get_cookie(e, prefix)] ELSE <<>>

Flagged(c, e, flag) ==
    e \in DOMAIN c.results /\ \E k \in 1..Len(c.results[e]) : c.results[e][k] = flag

FlagsAsClaimed(c) ==
    \A e \in DOMAIN c.evcs :
        LET int_records == RecordsFor(c.stored_int_flows, INT_COOKIE_PREFIX, e)
            mef_records == RecordsFor(c.stored_mef_flows, MEF_COOKIE_PREFIX, e)
            enabled == c.evcs[e].telemetry.enabled
        IN  /\ Flagged(c, e, "wrong_metadata_has_int_flows")
                <=> (~ enabled /\ Len(int_records) > 0)
            /\ Flagged(c, e, "missing_some_int_flows")
                <=> (enabled /\ Len(mef_records) > 0 /\ Len(int_records) < Len(mef_records))

C9_EvcCompare ==
    [][(Idle /\ call'.op = "evc_compare")
       => /\ FlagsAsClaimed(call')
          /\ DOMAIN call'.results \subseteq DOMAIN call'.evcs
          /\ UNCHANGED <<evcs, flows, srcs_pp, unis_src, buffer, metadata_calls>>]_vars

C9_Witness ==
    /\ IsCall("evc_compare")
    /\ srcs_pp # <<>>
    /\ DOMAIN call.results = {"e1", "e2"}
    /\ call.results["e1"] = <<"missing_some_int_flows">>
    /\ Len(RecordsFor(call.stored_int_flows, INT_COOKIE_PREFIX, "e1")) = 1
    /\ call.results["e2"] = <<"wrong_metadata_has_int_flows">>

(***************************************************************************)
(* C11. enable_int with force=false raises NotReady (ProxyPortStatusNotUP) *)
(* when either resolved ProxyPort of a circuit is not UP; with force=true  *)
(* the same input does not raise NotReady and the operation proceeds to    *)
(* rule installation.                                                      *)
(* As stated it fails: without force an already enabled circuit raises     *)
(* EVCHasINT before its ProxyPorts are looked at, and with force the       *)
(* installation is still not reached when the base flows are missing.      *)
(***************************************************************************)
PpNotUp(e) == Existing(e) /\ BothResolve(e) /\ ~ BothUp(e)
Buildable(e) == Prior(e).active => HasBaseFlows(e)
SwitchInstalled(r) == \E k \in Installs : buffer[k].dpid = r.switch

C11_AsStated ==
    (IsCall("enable_int") /\ \E e \in EvcIds : InCall(e) /\ PpNotUp(e))
    => IF call.force
       THEN result \in {"ok"} \cup RepositoryErrors
       ELSE result = "ProxyPortStatusNotUP"

\* C11 amended: with force=false enable_int raises ProxyPortStatusNotUP for such a
\* circuit when it is not already enabled and the circuits before it in the set pass
\* validation; with force=true it never raises ProxyPortStatusNotUP, and when every
\* circuit of the set passes the remaining validation and has the base flows an active
\* circuit needs, it raises no validation error and an install command goes to every
\* switch a rule was built for (unless fetching the stored flows fails).
C11_NotReadyUnlessForced ==
    \A k \in 1..2 :
        (IsCall("enable_int") /\ k <= Len(call.ids) /\ PpNotUp(call.ids[k]))
        => IF call.force
           THEN /\ result # "ProxyPortStatusNotUP"
                /\ (\A j \in 1..Len(call.ids) :
                        PassesEnable(call.ids[j], TRUE) /\ Buildable(call.ids[j]))
                   => /\ result \in {"ok"} \cup RepositoryErrors
                      /\ result # "RetryError"
                         => \A j \in 1..Len(call.ids) :
                                \A r \in BuiltRules(call.ids[j]) : SwitchInstalled(r)
           ELSE /\ result \in EVCError
                /\ (~ Prior(call.ids[k]).telemetry.enabled /\ EarlierPass(k, FALSE))
                   => result = "ProxyPortStatusNotUP"

C11_Witness ==
    /\ IsCall("enable_int") /\ call.force /\ call.ids = <<"e1", "e2">>
    /\ PpNotUp("e2") /\ Prior("e2").active
    /\ result = "ok"
    /\ \A r \in BuiltRules("e2") : SwitchInstalled(r)
    /\ evcs["e2"].telemetry.status_reason = <<"proxy_port_down">>

(***************************************************************************)
(* C12. If validation fails for any circuit of the set passed to           *)
(* enable_int, no install command is dispatched and no metadata update is  *)
(* issued for any circuit of the set, including the circuits that passed   *)
(* validation; this also holds when the failure is missing base rules for  *)
(* an active circuit.                                                      *)
(***************************************************************************)
FailsEnable(e) == ~ PassesEnable(e, call.force) \/ ~ Buildable(e)

C12_AllOrNothing ==
    (IsCall("enable_int") /\ \E e \in EvcIds : InCall(e) /\ FailsEnable(e))
    => /\ result # "ok"
       /\ NothingIssued
       /\ \A e \in EvcIds : evcs[e].exists => evcs[e].telemetry = Prior(e).telemetry

C12_Witness ==
    /\ IsCall("enable_int") /\ Len(call.ids) = 2
    /\ ~ FailsEnable(call.ids[1])
    /\ PassesEnable(call.ids[2], call.force) /\ ~ Buildable(call.ids[2])
    /\ result = "FlowsNotFound"
    /\ NothingIssued

(***************************************************************************)
(* C13. disable_int with force=false raises NotFound for an absent (empty) *)
(* circuit and Conflict (EVCHasNoINT) for a circuit whose telemetry is not *)
(* enabled, before any rule-delete command is dispatched or any metadata   *)
(* is updated; with force=true neither error is raised.                    *)
(* The error is the one of the first circuit of the set that fails.        *)
(***************************************************************************)
PassesDisable(e) == Existing(e) /\ Prior(e).telemetry.enabled

C13_DisableValidation ==
    /\ \A k \in 1..2 :
           (IsCall("disable_int") /\ ~ call.force /\ k <= Len(call.ids)
               /\ ~ PassesDisable(call.ids[k])
               /\ \A j \in 1..(k - 1) : PassesDisable(call.ids[j]))
           => /\ result = (IF Existing(call.ids[k]) THEN "EVCHasNoINT" ELSE "EVCNotFound")
              /\ NothingIssued
              /\ \A e \in EvcIds : evcs[e].exists => evcs[e].telemetry = Prior(e).telemetry
    /\ (IsCall("disable_int") /\ call.force)
       => result \notin {"EVCNotFound", "EVCHasNoINT"}

C13_Witness ==
    /\ IsCall("disable_int") /\ ~ call.force /\ Len(call.ids) = 2
    /\ PassesDisable(call.ids[1])
    /\ ~ Existing(call.ids[2])
    /\ result = "EVCNotFound"
    /\ NothingIssued

(***************************************************************************)
(* The three operations under any batch size setting, in a network that    *)
(* stays as planned.                                                       *)
(***************************************************************************)
BatchInit ==
    /\ evcs = [e \in EvcIds |-> NewEvc]
    /\ flows = UNION {BaseFlows(e) : e \in EvcIds}
    /\ uni_meta = [u \in Unis |-> IF u = "s1:12" THEN "2" ELSE "1"]
    /\ loop = [x \in SrcIds |-> "UP"]
    /\ unis_src = <<>>
    /\ srcs_pp = <<>>
    /\ BATCH_SIZE \in 0..MaxBatch
    /\ call = IdleCall
    /\ result = "ok"
    /\ buffer = <<>>
    /\ metadata_calls = <<>>

BatchNext == EnableInt \/ DisableInt \/ RedeployInt \/ Return

BatchSpec == BatchInit /\ [][BatchNext]_vars

(***************************************************************************)
(* C14. A disable_int that passes validation dispatches, for every         *)
(* (switch, cookie) pair found among the stored telemetry rules of the     *)
(* circuits, one cookie-only delete entry (full cookie mask, all tables),  *)
(* and updates every circuit of the set to enabled=false, status DOWN,     *)
(* reason ["disabled"].                                                    *)
(* The code does not do this when a switch has more pairs than one batch:  *)
(* _send_flows sends only the first batch's entries.                       *)
(***************************************************************************)
DeleteEntries(p) ==
    {kj \in Deletes \X (1..MaxFlows) :
        /\ buffer[kj[1]].dpid = p.switch
        /\ kj[2] <= Len(buffer[kj[1]].flows)
        /\ buffer[kj[1]].flows[kj[2]] = CookieEntry(StoredFlow(p.switch, p.cookie, 0)).flow}

DisableDone ==
    /\ IsCall("disable_int")
    /\ call.force \/ AllOf(PassesDisable)
    /\ result \notin RepositoryErrors

C14_DeletesEveryPair ==
    DisableDone
    => /\ \A p \in call.found : Card(DeleteEntries(p)) = 1
       /\ \A e \in EvcIds :
              (InCall(e) /\ Existing(e))
              => evcs[e].telemetry = Telemetry(FALSE, "DOWN", <<"disabled">>)

\* what does hold: every switch with such a pair receives a delete command, every entry
\* sent is a cookie-only one for a pair found, and the circuits are updated
C14_DeletesAndUpdates ==
    DisableDone
    => /\ \A p \in call.found : \E k \in Deletes : buffer[k].dpid = p.switch
       /\ \A k \in Deletes : \A j \in 1..Len(buffer[k].flows) :
              \E p \in call.found :
                  /\ p.switch = buffer[k].dpid
                  /\ buffer[k].flows[j] = CookieEntry(StoredFlow(p.switch, p.cookie, 0)).flow
       /\ \A e \in EvcIds :
              (InCall(e) /\ Existing(e))
              => evcs[e].telemetry = Telemetry(FALSE, "DOWN", <<"disabled">>)

C14_Witness ==
    /\ DisableDone /\ result = "ok" /\ Len(call.ids) = 2
    /\ Card(call.found) = 3
    /\ Card(Deletes) >= 2

(***************************************************************************)
(* C15. After disable_int returns without raising (force=false or          *)
(* force=true, one or several circuits), every circuit of the set whose    *)
(* endpoints resolve to ProxyPorts is no longer a member of either of     *)
(* those ProxyPorts' evc_ids.                                              *)
(* The code does not do this under force: the first circuit that fails to  *)
(* resolve ends the loop of _discard_pps_evc_ids, the failure is           *)
(* suppressed, and the circuits after it stay registered.                  *)
(***************************************************************************)
Unregistered(e) ==
    /\ e \notin PpOf(EvcUnis[e].uni_a).evc_ids
    /\ e \notin PpOf(EvcUnis[e].uni_z).evc_ids

C15_Unregistered ==
    \A e \in EvcIds :
        (IsCall("disable_int") /\ result = "ok" /\ InCall(e)
            /\ Existing(e) /\ BothResolve(e))
        => Unregistered(e)

\* what does hold: the same when every circuit of the set resolves
C15_UnregisteredWhenAllResolve ==
    \A e \in EvcIds :
        (IsCall("disable_int") /\ result = "ok" /\ InCall(e)
            /\ AllOf(Existing) /\ AllOf(BothResolve))
        => Unregistered(e)

C15_Witness ==
    /\ IsCall("disable_int") /\ result = "ok" /\ Len(call.ids) = 2
    /\ AllOf(Existing) /\ AllOf(BothResolve)
    /\ AllOf(Unregistered)
    /\ \A e \in EvcIds : Prior(e).telemetry.enabled
    /\ DOMAIN srcs_pp = SrcIds

(***************************************************************************)
(* C16. A ProxyPort resolution failure met while disable_int unregisters   *)
(* the circuit ids is raised to the caller when force=false and is         *)
(* suppressed (disable_int returns normally) when force=true.              *)
(***************************************************************************)
FirstUnresolved(k) ==
    /\ k <= Len(call.ids)
    /\ Existing(call.ids[k]) /\ ~ BothResolve(call.ids[k])
    /\ \A j \in 1..(k - 1) : Existing(call.ids[j]) /\ BothResolve(call.ids[j])

C16_UnregisterFailure ==
    \A k \in 1..2 :
        (DisableDone /\ FirstUnresolved(k))
        => IF call.force THEN result = "ok"
           ELSE result \in {"ProxyPortNotFound", "ProxyPortDestNotFound"}

C16_Witness ==
    /\ DisableDone /\ ~ call.force /\ FirstUnresolved(2)
    /\ result = "ProxyPortNotFound"
    /\ metadata_calls # <<>>

(***************************************************************************)
(* C17. redeploy_int on a set containing a circuit whose telemetry is not  *)
(* enabled raises Conflict (EVCHasNoINT) and dispatches no delete or       *)
(* install command and updates no metadata; no option bypasses this check. *)
(***************************************************************************)
C17_RedeployNeedsInt ==
    (IsCall("redeploy_int") /\ \E e \in EvcIds : InCall(e) /\ ~ has_int_enabled(Prior(e)))
    => /\ result = "EVCHasNoINT"
       /\ NothingIssued
       /\ \A e \in EvcIds : evcs[e].exists => evcs[e].telemetry = Prior(e).telemetry

C17_Witness ==
    /\ IsCall("redeploy_int") /\ Len(call.ids) = 2
    /\ has_int_enabled(Prior(call.ids[1]))
    /\ Existing(call.ids[2]) /\ ~ has_int_enabled(Prior(call.ids[2]))
    /\ result = "EVCHasNoINT"
    /\ NothingIssued

(***************************************************************************)
(* C18. In a successful redeploy_int, the cookie-based delete commands for *)
(* the circuits' existing telemetry rules are all dispatched before the    *)
(* first install command of the rebuilt rules, for every switch.           *)
(***************************************************************************)
C18_DeleteBeforeInstall ==
    (IsCall("redeploy_int") /\ result = "ok")
    => \A d \in Deletes : \A i \in Installs : d < i

C18_Witness ==
    /\ IsCall("redeploy_int") /\ result = "ok" /\ Len(call.ids) = 2
    /\ \A sw \in Switches : \E d \in Deletes : buffer[d].dpid = sw /\ buffer[d].flows # <<>>
    /\ \A sw \in Switches : \E i \in Installs : buffer[i].dpid = sw /\ buffer[i].flows # <<>>

(***************************************************************************)
(* C19. A successful redeploy_int sets the telemetry status of every       *)
(* redeployed circuit to UP (enabled=true, empty reason).                  *)
(* As stated it fails: redeploy_int partitions the circuits as enable_int  *)
(* does, so an inactive circuit and a circuit with a ProxyPort that is not *)
(* UP end with status DOWN.                                                *)
(***************************************************************************)
C19_AsStated ==
    \A e \in EvcIds :
        (IsCall("redeploy_int") /\ result = "ok" /\ InCall(e))
        => evcs[e].telemetry = Telemetry(TRUE, "UP", <<>>)

\* C19 amended: a successful redeploy_int leaves every redeployed circuit enabled, with
\* status UP and empty reason if it is active and both its ProxyPorts are UP, status
\* DOWN reason ["no_flows"] if it is inactive, and status DOWN reason
\* ["proxy_port_down"] if it is active and one of its ProxyPorts is not UP.
C19_RedeployStatus ==
    \A e \in EvcIds :
        (IsCall("redeploy_int") /\ result = "ok" /\ InCall(e))
        => evcs[e].telemetry = ExpectedTelemetry(e)

C19_Witness ==
    /\ IsCall("redeploy_int") /\ result = "ok" /\ Len(call.ids) = 2
    /\ \E e \in EvcIds : evcs[e].telemetry = Telemetry(TRUE, "DOWN", <<"no_flows">>)
    /\ \E e \in EvcIds : evcs[e].telemetry = Telemetry(TRUE, "UP", <<>>)

(***************************************************************************)
(* C20. No event-driven path (link down, link up, interface metadata added *)
(* or removed, circuit deleted, circuit undeployed, rule error) propagates *)
(* a failure to the event dispatcher: when the repository call fails or    *)
(* validation/ProxyPort resolution fails inside the handler, the handler   *)
(* logs and returns normally.                                              *)
(* The code does not do this: handle_pp_link_down and handle_pp_link_up    *)
(* let a failure of get_evcs, get_stored_flows or add_evcs_metadata rise   *)
(* to Main.on_link_down / Main.on_link_up, which do not catch it.          *)
(***************************************************************************)
IsLinkEvent == call.op \in {"handle_pp_link_down", "handle_pp_link_up"}

C20_NoPropagation ==
    IsLinkEvent => result = "ok"

\* what does hold: a link handler raises nothing but a repository failure
C20_OnlyRepositoryFailures ==
    IsLinkEvent => result \in {"ok"} \cup RepositoryErrors

C20_Witness ==
    /\ IsCall("handle_pp_link_down") /\ call.fallback
    /\ result = "RetryError"
    /\ \E s \in DOMAIN srcs_pp : srcs_pp[s].evc_ids # {}

(***************************************************************************)
(* C21. With the fallback flag on, handle_pp_link_down for a link one of   *)
(* whose endpoints is the source of a registered ProxyPort removes the     *)
(* telemetry rules of exactly the circuits that are re-fetched as          *)
(* telemetry-enabled with status UP and are members of that ProxyPort's    *)
(* evc_ids, and updates them (with force) to status DOWN, reason           *)
(* ["proxy_port_down"], keeping enabled=true; circuits outside that set    *)
(* get no delete command and no metadata update.                           *)
(* The code does not force the update: remove_int_flows is called with its *)
(* default force=False.                                                    *)
(***************************************************************************)
\* the ProxyPort the handler's link leads to (the handlers leave the registry's keys)
LinkPp == link_pp(srcs_pp, call.link)

\* circuit e was fetched with the given status and depends on the link's ProxyPort
Affected(e, status) ==
    /\ LinkPp # None
    /\ Prior(e).present /\ ~ Prior(e).archived
    /\ Prior(e).telemetry.enabled /\ Prior(e).telemetry.status = status
    /\ e \in srcs_pp[LinkPp].evc_ids

DeletedFor(e) ==
    \E k \in Deletes : \E j \in 1..Len(buffer[k].flows) :
        buffer[k].flows[j].cookie = get_cookie(e, INT_COOKIE_PREFIX)

InstalledFor(e) ==
    \E k \in Installs : \E j \in 1..Len(buffer[k].flows) :
        buffer[k].flows[j].cookie = get_cookie(e, INT_COOKIE_PREFIX)

UpdatedFor(e) ==
    \E k \in 1..Len(metadata_calls) : IsIn(e, metadata_calls[k].circuit_ids)

UpdatedWith(e, telemetry, force) ==
    /\ Card({k \in 1..Len(metadata_calls) : IsIn(e, metadata_calls[k].circuit_ids)}) = 1
    /\ \E k \in 1..Len(metadata_calls) :
          /\ IsIn(e, metadata_calls[k].circuit_ids)
          /\ metadata_calls[k].telemetry = telemetry
          /\ metadata_calls[k].force = force

HasIntFlows(e) == \E f \in flows : f.flow.cookie = get_cookie(e, INT_COOKIE_PREFIX)

LinkDownDone ==
    /\ IsCall("handle_pp_link_down") /\ call.fallback
    /\ LinkPp # None
    /\ result = "ok"

LinkDownFallback(force) ==
    \A e \in EvcIds :
        IF Affected(e, "UP")
        THEN /\ ~ HasIntFlows(e)
             /\ UpdatedWith(e, Telemetry(TRUE, "DOWN", <<"proxy_port_down">>), force)
             /\ evcs[e].telemetry = Telemetry(TRUE, "DOWN", <<"proxy_port_down">>)
        ELSE ~ DeletedFor(e) /\ ~ UpdatedFor(e) /\ evcs[e].telemetry = Prior(e).telemetry

C21_LinkDownFallback ==
    LinkDownDone => LinkDownFallback(TRUE)

\* what does hold: the same with the update sent without force
C21_LinkDownUnforced ==
    LinkDownDone => LinkDownFallback(FALSE)

C21_Witness ==
    /\ LinkDownDone
    /\ Affected("e1", "UP") /\ DeletedFor("e1") /\ ~ HasIntFlows("e1")
    /\ ~ Affected("e2", "UP") /\ HasIntFlows("e2") /\ Prior("e2").telemetry.enabled

(***************************************************************************)
(* C22. handle_pp_link_up reinstalls telemetry rules and sets status UP    *)
(* only for circuits that are telemetry-enabled with status DOWN, active,  *)
(* not archived, members of the affected ProxyPort's evc_ids, with both    *)
(* endpoints present in the attachment-to-source index and both indexed    *)
(* ProxyPorts UP, and only when the link itself is UP with no status       *)
(* reason; every other circuit gets no install command and no metadata     *)
(* update.                                                                 *)
(***************************************************************************)
IndexedUp(u) ==
    /\ u \in DOMAIN unis_src
    /\ unis_src[u] \in DOMAIN srcs_pp
    /\ pp_status(srcs_pp[unis_src[u]]) = "UP"

\* circuit e, as it is now, is one a link-up of `link` may reinstall
Qualifies(e, link) ==
    /\ link.status = "UP" /\ link.status_reason = {}
    /\ link_pp(srcs_pp, link) # None
    /\ e \in srcs_pp[link_pp(srcs_pp, link)].evc_ids
    /\ evcs[e].exists /\ evcs[e].active /\ ~ evcs[e].archived
    /\ evcs[e].telemetry.enabled /\ evcs[e].telemetry.status = "DOWN"
    /\ IndexedUp(EvcUnis[e].uni_a) /\ IndexedUp(EvcUnis[e].uni_z)

C22_LinkUpOnlyQualified ==
    [][(Idle /\ call'.op = "handle_pp_link_up")
       => \A e \in EvcIds :
             (InstalledFor(e)' \/ UpdatedFor(e)' \/ evcs'[e].telemetry # evcs[e].telemetry)
             => (call'.fallback /\ Qualifies(e, call'.link))]_vars

C22_Witness ==
    /\ IsCall("handle_pp_link_up") /\ result = "ok"
    /\ InstalledFor("e1") /\ evcs["e1"].telemetry = Telemetry(TRUE, "UP", <<>>)
    /\ Prior("e1").telemetry.status = "DOWN"
    /\ Prior("e2").telemetry.enabled /\ Prior("e2").telemetry.status = "DOWN"
    /\ ~ InstalledFor("e2") /\ ~ UpdatedFor("e2")

(***************************************************************************)
(* C23. Self-healing: with the fallback flag on, a circuit set to status   *)
(* DOWN/proxy_port_down by handle_pp_link_down is returned to status UP    *)
(* with empty reason (and its telemetry rules re-dispatched for install)   *)
(* by the following handle_pp_link_up for the same ProxyPort link,         *)
(* provided that at that time the circuit is active, not archived, has     *)
(* base rules, and both its ProxyPorts are UP.                             *)
(* The code does not do this: the rules of the circuits of one link-up are *)
(* dispatched together, and the batches after the first of a switch are    *)
(* sent empty (C33); and a circuit of the same link-up that fails          *)
(* validation or has no base rules stops the whole link-up.                *)
(***************************************************************************)
LinkUpDone ==
    /\ IsCall("handle_pp_link_up") /\ call.fallback
    /\ call.link.status = "UP" /\ call.link.status_reason = {}
    /\ result = "ok"

\* circuit e was put down by the link-down fallback and can be healed by this link-up
Healable(e) ==
    /\ Affected(e, "DOWN")
    /\ Prior(e).telemetry.status_reason = <<"proxy_port_down">>
    /\ Prior(e).active
    /\ HasBaseFlows(e)
    /\ BothUp(e)
    /\ IndexedUp(EvcUnis[e].uni_a) /\ IndexedUp(EvcUnis[e].uni_z)

\* the circuits the link-up takes together
TakenUp(e) ==
    /\ Affected(e, "DOWN")
    /\ Prior(e).active
    /\ IndexedUp(EvcUnis[e].uni_a) /\ IndexedUp(EvcUnis[e].uni_z)

C23_SelfHealing ==
    \A e \in EvcIds :
        (LinkUpDone /\ Healable(e))
        => /\ evcs[e].telemetry = Telemetry(TRUE, "UP", <<>>)
           /\ \A r \in BuiltRules(e) : InstallsRule(r)

\* C23 restricted to a link-up whose every circuit passes validation and has base
\* rules: the circuit is back UP and every rule built for it is dispatched for install.
\* It still fails, by the empty batches alone.
C23_SelfHealingOfPassingBatch ==
    \A e \in EvcIds :
        (LinkUpDone /\ Healable(e)
            /\ \A x \in EvcIds : TakenUp(x)
                  => BothResolve(x) /\ ~ SameSourceIntra(x) /\ HasBaseFlows(x))
        => /\ evcs[e].telemetry = Telemetry(TRUE, "UP", <<>>)
           /\ \A r \in BuiltRules(e) : InstallsRule(r)

\* what does hold: then the circuit is back UP and install commands carry rules of it
C23_StatusHealsWhenBatchPasses ==
    \A e \in EvcIds :
        (LinkUpDone /\ Healable(e)
            /\ \A x \in EvcIds : TakenUp(x)
                  => BothResolve(x) /\ ~ SameSourceIntra(x) /\ HasBaseFlows(x))
        => /\ evcs[e].telemetry = Telemetry(TRUE, "UP", <<>>)
           /\ InstalledFor(e)

C23_Witness ==
    /\ LinkUpDone
    /\ Healable("e1") /\ Healable("e2")
    /\ \A e \in EvcIds : evcs[e].telemetry = Telemetry(TRUE, "UP", <<>>)
    /\ \E r \in BuiltRules("e2") : ~ InstallsRule(r)

(***************************************************************************)
(* C24. handle_pp_metadata_removed behaves like the link-down fallback:    *)
(* when the interface no longer carries proxy_port metadata and its        *)
(* indexed ProxyPort has dependent circuits, every dependent circuit       *)
(* fetched as telemetry-enabled with status UP has its telemetry rules     *)
(* removed by cookie and its status set DOWN with enabled kept true, with  *)
(* the force setting of the link-down fallback; if the interface still has *)
(* proxy_port metadata or is not indexed, nothing is dispatched or         *)
(* updated.                                                                *)
(***************************************************************************)
\* a link event that leads handle_pp_link_down to the ProxyPort registered under key
LinkOf(key) ==
    [endpoint_a |-> key, endpoint_b |-> key, status |-> "DOWN",
     status_reason |-> {"deactivated"}]

Unreasoned(telemetry) == [telemetry EXCEPT !.status_reason = <<>>]

\* two outcomes that differ in nothing but the status reasons they write
SameButReason(a, b) ==
    /\ a.result = b.result
    /\ a.buffer = b.buffer
    /\ a.flows = b.flows
    /\ a.srcs_pp = b.srcs_pp
    /\ a.unis_src = b.unis_src
    /\ Len(a.metadata_calls) = Len(b.metadata_calls)
    /\ \A k \in 1..Len(a.metadata_calls) :
          [a.metadata_calls[k] EXCEPT !.telemetry = Unreasoned(@)]
              = [b.metadata_calls[k] EXCEPT !.telemetry = Unreasoned(@)]
    /\ \A e \in EvcIds :
          [a.evcs[e] EXCEPT !.telemetry = Unreasoned(@)]
              = [b.evcs[e] EXCEPT !.telemetry = Unreasoned(@)]

\* the handler's outcome, as the step leaves it
Outcome ==
    [evcs |-> evcs, flows |-> flows, srcs_pp |-> srcs_pp, unis_src |-> unis_src,
     buffer |-> buffer, metadata_calls |-> metadata_calls, result |-> result]

\* circuit e was fetched with the given status and depends on the interface's ProxyPort
Dependent(e, status) ==
    /\ call.pp # None
    /\ Prior(e).present /\ ~ Prior(e).archived
    /\ Prior(e).telemetry.enabled /\ Prior(e).telemetry.status = status
    /\ e \in call.pps[call.pp].evc_ids

MetadataRemoved == Telemetry(TRUE, "DOWN", <<"proxy_port_metadata_removed">>)

Designated == get_interface_by_port_no(SwitchOf(call.intf), uni_meta[call.intf])

\* the handler found a ProxyPort with circuits whose source is not the designated one
Repointing ==
    /\ IsCall("handle_pp_metadata_added")
    /\ has_proxy_port(call.intf)
    /\ call.pp # None
    /\ call.pps[call.pp].evc_ids # {}
    /\ Designated # call.pps[call.pp].source

\* circuit e was fetched as telemetry-enabled and depends on the interface's ProxyPort
DependentEnabled(e) ==
    /\ call.pp # None
    /\ Prior(e).present /\ ~ Prior(e).archived
    /\ Prior(e).telemetry.enabled
    /\ e \in call.pps[call.pp].evc_ids

UpdatesWith(e, enabled) ==
    {k \in 1..Len(metadata_calls) : /\ IsIn(e, metadata_calls[k].circuit_ids)
                                    /\ metadata_calls[k].telemetry.enabled = enabled}

DisableBeforeEnable ==
    /\ \A k \in Deletes : \A j \in Installs : k < j
    /\ \A k, j \in 1..Len(metadata_calls) :
          (~ metadata_calls[k].telemetry.enabled /\ metadata_calls[j].telemetry.enabled)
              => k < j
    /\ \A k \in 1..Len(metadata_calls) :
          ~ metadata_calls[k].telemetry.enabled => metadata_calls[k].force
    /\ result \notin {"EVCHasINT", "EVCHasNoINT", "ProxyPortStatusNotUP"}
    /\ \A e \in EvcIds :
          /\ (InstalledFor(e) \/ UpdatesWith(e, TRUE) # {})
                => DependentEnabled(e) /\ UpdatesWith(e, FALSE) # {}
          /\ (DeletedFor(e) \/ UpdatesWith(e, FALSE) # {}) => DependentEnabled(e)
          /\ (DependentEnabled(e) /\ result = "ok")
                => /\ Card(UpdatesWith(e, FALSE)) = 1
                   /\ HasIntFlows(e) => InstalledFor(e)

C25_MetadataAddedOrder ==
    IsCall("handle_pp_metadata_added") =>
        IF Repointing
        THEN /\ srcs_pp[call.pp].source = Designated
             /\ repoint_source(call.pps, call.pp, Designated)[call.pp].evc_ids
                    = call.pps[call.pp].evc_ids
             /\ DisableBeforeEnable
        ELSE /\ buffer = <<>> /\ metadata_calls = <<>> /\ result = "ok"
             /\ srcs_pp = call.pps
             /\ \A e \in EvcIds : Snapshot(evcs, e) = Prior(e)

C25_Witness ==
    /\ Repointing /\ result = "ok"
    /\ DependentEnabled("e2")
    /\ DeletedFor("e2") /\ InstalledFor("e2")
    /\ UpdatesWith("e2", FALSE) # {} /\ UpdatesWith("e2", TRUE) # {}
    /\ evcs["e2"].telemetry = Telemetry(TRUE, "UP", <<>>)
    /\ call.pps[call.pp].source # srcs_pp[call.pp].source

(***************************************************************************)
(* C26. In handle_pp_metadata_added, any validation failure raised by the  *)
(* forced re-enable (circuit not found, ProxyPort not found or destination *)
(* unresolved, same-source conflict, missing base rules) is logged only    *)
(* and never raised out of the handler.                                    *)
(* The code catches ProxyPortSameSourceIntraEVC alone.                     *)
(***************************************************************************)
C26_ValidationNeverRaised ==
    IsCall("handle_pp_metadata_added") => result \notin EVCError

\* what does hold: the same-source conflict is never raised
C26_SameSourceNeverRaised ==
    IsCall("handle_pp_metadata_added") => result # "ProxyPortSameSourceIntraEVC"

\* the re-enable met the same-source conflict, and the handler returned normally with
\* the circuits left disabled
C26_Witness ==
    /\ Repointing /\ result = "ok"
    /\ DependentEnabled("e1") /\ SameSourceIntra("e1")
    /\ Installs = {}
    /\ \A e \in EvcIds :
          DependentEnabled(e) => evcs[e].telemetry = Telemetry(FALSE, "DOWN", <<"disabled">>)

(***************************************************************************)
(* C30. The proxy-port registry holds one ProxyPort per source interface   *)
(* in every reachable state: each entry of the source-interface index is a *)
(* ProxyPort whose source is that key's interface, no two entries refer to *)
(* the same source interface, resolving the same source twice returns the  *)
(* same ProxyPort, and entries are never removed.                          *)
(* handle_pp_metadata_added repoints a registered ProxyPort and leaves it  *)
(* under its old key; the next resolution registers a second one.          *)
(***************************************************************************)
C30_OnePerSource ==
    /\ \A k \in DOMAIN srcs_pp : srcs_pp[k].source = k
    /\ \A k, j \in DOMAIN srcs_pp : srcs_pp[k].source = srcs_pp[j].source => k = j

\* what does hold: an entry of the index is never removed
C30_NeverRemoved ==
    [][DOMAIN srcs_pp \subseteq DOMAIN srcs_pp']_vars

\* two registered ProxyPorts of one source, each with a circuit or not
C30_Witness ==
    /\ IsCall("handle_pp_metadata_added")
    /\ \E k, j \in DOMAIN srcs_pp :
          /\ k # j
          /\ srcs_pp[k].source = srcs_pp[j].source
          /\ srcs_pp[k].source # k
          /\ call.pps[k].source = k

(***************************************************************************)
(* C27. handle_failover_flows: for a telemetry-enabled circuit whose       *)
(* ProxyPort resolution fails on either endpoint, the Manager              *)
(* unconditionally falls back: it removes the circuit's telemetry rules by *)
(* cookie, sets status DOWN with reason ["proxy_port_error"] (enabled kept *)
(* true, forced), and none of that circuit's fresh or stale fragments is   *)
(* installed; circuits without telemetry enabled are skipped entirely.     *)
(***************************************************************************)
\* the event's item for circuit e
ItemOf(e) == call.content[CHOOSE k \in 1..Len(call.content) : call.content[k].id = e]

IntStored(store, e) == {f \in store : f.flow.cookie = get_cookie(e, INT_COOKIE_PREFIX)}

DeletedByCookie(e) ==
    \E k \in Deletes : \E j \in 1..Len(buffer[k].flows) :
        /\ buffer[k].flows[j].cookie = get_cookie(e, INT_COOKIE_PREFIX)
        /\ "cookie_mask" \in DOMAIN buffer[k].flows[j]

FailoverFallback(e) ==
    /\ ~ InstalledFor(e)
    /\ result = "ok" =>
          /\ IntStored(call.stored, e) # {} => DeletedByCookie(e)
          /\ ~ HasIntFlows(e)
          /\ UpdatedWith(e, ProxyPortErrorMetadata, TRUE)
          /\ evcs[e].telemetry = ProxyPortErrorMetadata

FailoverSkipped(e) ==
    /\ ~ InstalledFor(e) /\ ~ DeletedFor(e) /\ ~ UpdatedFor(e)
    /\ evcs[e].telemetry = Prior(e).telemetry
    /\ IntStored(flows, e) = IntStored(call.stored, e)

BuiltFrom(fragments) == {IntFlowOf(fragments[k]) : k \in 1..Len(fragments)}

\* the telemetry rules of circuit e that some command of the given kind carries
CarriedFor(e, kind) ==
    {StoredFlow(buffer[k].dpid, buffer[k].flows[j].cookie, buffer[k].flows[j].match) :
        <<k, j>> \in {x \in kind \X (1..MaxFlows) :
                        /\ x[2] <= Len(buffer[x[1]].flows)
                        /\ "match" \in DOMAIN buffer[x[1]].flows[x[2]]
                        /\ buffer[x[1]].flows[x[2]].cookie = get_cookie(e, INT_COOKIE_PREFIX)}}

FailoverResolved(e) ==
    /\ IsCall("handle_failover_flows") /\ result = "ok"
    /\ has_int_enabled(Prior(e)) /\ BothResolve(e)

C28_FreshInstalledStaleRemoved ==
    \A e \in EvcIds :
        FailoverResolved(e) =>
            /\ CarriedFor(e, Installs) \subseteq BuiltFrom(ItemOf(e).flows)
            /\ CarriedFor(e, Deletes) \subseteq BuiltFrom(ItemOf(e).removed_flows)
            /\ BuiltFrom(ItemOf(e).removed_flows) \subseteq CarriedFor(e, Deletes)
            /\ BuiltFrom(ItemOf(e).removed_flows) \cap CarriedFor(e, Installs) = {}

\* what does hold: no delete command for such a circuit, and install commands built
\* from its fresh and its stale fragments when it has fresh ones
C28_StaleInstalledNeverRemoved ==
    \A e \in EvcIds :
        FailoverResolved(e) =>
            /\ ~ DeletedFor(e)
            /\ CarriedFor(e, Installs)
                  \subseteq BuiltFrom(ItemOf(e).flows \o ItemOf(e).removed_flows)
            /\ ItemOf(e).flows = <<>> => ~ InstalledFor(e)
            /\ IntStored(call.stored, e) \subseteq IntStored(flows, e)

\* a circuit with one fresh and one stale fragment: both are installed, nothing is deleted
C28_Witness ==
    /\ FailoverResolved("e1")
    /\ Len(ItemOf("e1").flows) = 1 /\ Len(ItemOf("e1").removed_flows) = 1
    /\ ~ has_int_enabled(Prior("e2"))
    /\ CarriedFor("e1", Installs)
          = BuiltFrom(ItemOf("e1").flows) \cup BuiltFrom(ItemOf("e1").removed_flows)
    /\ Deletes = {}
    /\ BuiltFrom(ItemOf("e1").removed_flows) \subseteq flows

(***************************************************************************)
(* C29. Two overlapping topology-link events (link down/up for ProxyPorts  *)
(* sharing a circuit, handlers interleaved at their suspension points)     *)
(* never double-toggle the same circuit: the fetch, the decision and the   *)
(* rule/metadata mutation of one handler all happen inside the             *)
(* topology-link section, so the second handler decides on the state left  *)
(* by the first and a circuit receives at most one fallback removal per    *)
(* transition from UP to DOWN.                                             *)
(***************************************************************************)
InSection(h) == call.tasks[h].pc \in {"get_evcs", "mutate"}

\* at most one handler is between its fetch and the end of its mutation, the lock's holder
OneInSection ==
    InLinkEvents =>
        \A h \in Tasks : InSection(h) => call.lock = h /\ \A g \in Tasks \ {h} : ~ InSection(g)

\* task h runs its removal or installation in this step
Mutates(h) ==
    /\ InLinkEvents
    /\ call.tasks[h].pc = "mutate"
    /\ call'.tasks[h].pc = "done"

FetchedStatus(h) == IF call.tasks[h].kind = "down" THEN "UP" ELSE "DOWN"

\* the circuits the handler decided on are still as it fetched them, and a removal that
\* passes leaves them DOWN
DecidedOnCurrent(h) ==
    \A k \in 1..Len(call.tasks[h].ids) :
        LET e == call.tasks[h].ids[k]
        IN  /\ evcs[e].telemetry = call.tasks[h].snap[e].telemetry
            /\ evcs[e].telemetry.enabled
            /\ evcs[e].telemetry.status = FetchedStatus(h)
            /\ (call.tasks[h].kind = "down" /\ call'.tasks[h].result = "ok")
                  => evcs'[e].telemetry.status = "DOWN"

C29_NoDoubleToggle ==
    [][/\ OneInSection'
       /\ \A h \in Tasks : Mutates(h) => DecidedOnCurrent(h)]_vars

\* link_down of s2:1 waited for the lock while link_down of s1:1 removed the rules of
\* both circuits; it then found circuit e2, which its ProxyPort shares, DOWN and did nothing
C29_Witness ==
    /\ InLinkEvents
    /\ \A h \in Tasks : call.tasks[h].pc = "done" /\ call.tasks[h].kind = "down"
    /\ call.tasks[1].src = "s1:1" /\ call.tasks[2].src = "s2:1"
    /\ call.tasks[1].ids = <<"e1", "e2">> /\ call.tasks[1].result = "ok"
    /\ call.tasks[2].waited /\ call.tasks[2].ids = <<>>
    /\ "e2" \in srcs_pp[call.tasks[2].pp].evc_ids
    /\ Prior("e2").telemetry.status = "UP"
    /\ evcs["e2"].telemetry = Telemetry(TRUE, "DOWN", <<"proxy_port_down">>)
    /\ Card({k \in Deletes : \E j \in 1..Len(buffer[k].flows) :
                 buffer[k].flows[j].cookie = get_cookie("e2", INT_COOKIE_PREFIX)}) = 2

(***************************************************************************)
(* C31. After enable_int returns, each circuit id of the set is a member   *)
(* of evc_ids of both of its resolved ProxyPorts and the                   *)
(* attachment-to-source index maps each endpoint's attachment interface to *)
(* the source interface id of its ProxyPort; the registration happens only *)
(* after rule installation and the metadata updates have completed.        *)
(***************************************************************************)
\* UNI u of circuit e is registered in the registry pps and the index idx
RegisteredUni(pps, idx, e, u) ==
    /\ SourceKey(u) \in DOMAIN pps
    /\ e \in pps[SourceKey(u)].evc_ids
    /\ u \in DOMAIN idx
    /\ idx[u] = pps[SourceKey(u)].source

RegisteredBoth(pps, idx, e) ==
    /\ RegisteredUni(pps, idx, e, EvcUnis[e].uni_a)
    /\ RegisteredUni(pps, idx, e, EvcUnis[e].uni_z)

\* no ProxyPort gained a circuit and the index is as it was
NothingRegistered ==
    /\ unis_src' = unis_src
    /\ \A k \in DOMAIN srcs_pp' :
          srcs_pp'[k].evc_ids = IF k \in DOMAIN srcs_pp THEN srcs_pp[k].evc_ids ELSE {}

C31_RegisteredAfterInstall ==
    [][(Idle /\ call'.op = "enable_int") =>
          /\ result' = "ok" =>
                /\ \A e \in EvcIds : IsIn(e, call'.ids) => RegisteredBoth(srcs_pp', unis_src', e)
                /\ \A e \in EvcIds : IsIn(e, call'.ids) => evcs'[e].telemetry.enabled
          /\ result' # "ok" => NothingRegistered]_vars

\* both circuits enabled in one call, their rules dispatched, their metadata updated, and
\* both registered
C31_Witness ==
    /\ IsCall("enable_int") /\ result = "ok"
    /\ call.ids = <<"e1", "e2">>
    /\ \A e \in EvcIds : ~ Prior(e).telemetry.enabled /\ RegisteredBoth(srcs_pp, unis_src, e)
    /\ srcs_pp["s1:1"].evc_ids = {"e1", "e2"}
    /\ Installs # {}
    /\ Len(metadata_calls) > 0


(***************************************************************************)
(* C32. Rule-error handling: a flow error event for an "add" command, with *)
(* no error_exception, on a rule whose cookie carries the telemetry        *)
(* prefix, for a circuit whose telemetry is enabled, removes that          *)
(* circuit's telemetry rules by cookie and updates it, forced, to          *)
(* enabled=false, status DOWN, reason ["ofpt_error"]; any other flow error *)
(* event dispatches nothing and updates nothing. The handler is one step   *)
(* here, as it is one critical section of _ofpt_error_lock in the code.    *)
(***************************************************************************)
ErrorEvc(event) == get_id_from_cookie(event.cookie)

ErrorQualifies(event, snap) ==
    /\ ~ event.error_exception
    /\ event.error_command = "add"
    /\ event.cookie.prefix = INT_COOKIE_PREFIX
    /\ snap[ErrorEvc(event)].present
    /\ snap[ErrorEvc(event)].telemetry.enabled

OnlyCookieDeletesOf(e) ==
    \A k \in 1..Len(buffer) :
        /\ buffer[k].name = "delete"
        /\ \A j \in 1..Len(buffer[k].flows) :
              /\ buffer[k].flows[j].cookie = get_cookie(e, INT_COOKIE_PREFIX)
              /\ "cookie_mask" \in DOMAIN buffer[k].flows[j]

RuleErrorHandled(e) ==
    /\ OnlyCookieDeletesOf(e)
    /\ IntStored(call.stored, e) # {} => DeletedByCookie(e)
    /\ IntStored(flows, e) = {}
    /\ metadata_calls = <<[circuit_ids |-> <<e>>, telemetry |-> OfptErrorMetadata,
                           force |-> TRUE]>>
    /\ evcs[e].telemetry = OfptErrorMetadata
    /\ \A x \in EvcIds \ {e} : evcs[x] = call.snap_all[x]

RuleErrorIgnored ==
    /\ NothingIssued
    /\ \A x \in EvcIds : evcs[x] = call.snap_all[x]
    /\ flows = call.stored

C32_RuleError ==
    IsCall("on_flow_mod_error") =>
        IF ErrorQualifies(call.event, call.snap)
        THEN result = "ok" => RuleErrorHandled(ErrorEvc(call.event))
        ELSE RuleErrorIgnored

C32_Witness ==
    /\ IsCall("on_flow_mod_error")
    /\ result = "ok"
    /\ ErrorQualifies(call.event, call.snap)
    /\ ErrorEvc(call.event) = "e2"
    /\ Cardinality(IntStored(call.stored, "e2")) > 1
    /\ DeletedByCookie("e2")
    /\ evcs["e2"].telemetry = OfptErrorMetadata


(***************************************************************************)
(* C33. Batched dispatch loses and duplicates nothing: for every switch    *)
(* and every batch size, concatenating in dispatch order the rule lists of *)
(* the commands emitted by _send_flows yields exactly the rule list given  *)
(* for that switch, and no command has an empty rule list.                 *)
(* It fails: the loop rebinds `flows` to the batch it has just cut, so     *)
(* every batch after the first is cut from the first batch and is empty.   *)
(* What does hold: the first command of a switch carries the first         *)
(* min(N, B) rules (all N with a non-positive batch size) and every later  *)
(* command of that switch carries none.                                    *)
(***************************************************************************)
RulesOf(ev) == ev.flows

Dispatched(dpid) ==
    LET ToDpid(ev) == ev.dpid = dpid /\ ev.name = call.cmd
    IN  Flatten(MapSeq(RulesOf, SelectSeq(buffer, ToDpid)))

C33_NothingLostOrDuplicated ==
    IsCall("_send_flows") =>
        \A i \in 1..Len(call.switch_flows) :
            LET dpid == call.switch_flows[i].dpid
            IN  /\ Dispatched(dpid) = call.switch_flows[i].flows
                /\ \A k \in CommandsTo(dpid) : buffer[k].flows # <<>>

FirstCommandTo(dpid) == CHOOSE k \in CommandsTo(dpid) : \A j \in CommandsTo(dpid) : k <= j

C33_OnlyFirstBatchDispatched ==
    IsCall("_send_flows") =>
        \A i \in 1..Len(call.switch_flows) :
            LET dpid == call.switch_flows[i].dpid
                rules == call.switch_flows[i].flows
                B == IF BATCH_SIZE <= 0 THEN Len(rules) ELSE BATCH_SIZE
            IN  /\ CommandsTo(dpid) # {}
                /\ buffer[FirstCommandTo(dpid)].flows = SubSeq(rules, 1, Min(Len(rules), B))
                /\ \A k \in CommandsTo(dpid) \ {FirstCommandTo(dpid)} : buffer[k].flows = <<>>
                /\ Dispatched(dpid) = SubSeq(rules, 1, Min(Len(rules), B))

C33_Witness ==
    /\ IsCall("_send_flows") /\ BATCH_SIZE = 2
    /\ Len(call.switch_flows) = 2
    /\ Len(call.switch_flows[2].flows) = 4
    /\ Card(CommandsTo("s2")) = 2
    /\ Dispatched("s2") = SubSeq(call.switch_flows[2].flows, 1, 2)
    /\ Dispatched("s1") = call.switch_flows[1].flows


(***************************************************************************)
(* C34. Whenever no operation or handler is in progress, every circuit id  *)
(* contained in some ProxyPort's evc_ids belongs to a circuit whose        *)
(* telemetry metadata has enabled=true.                                    *)
(* It fails: on_flow_mod_error disables the circuit through                *)
(* remove_int_flows, which does not touch the registry. What does hold     *)
(* while every ProxyPort resolves: a registered circuit is enabled or was  *)
(* disabled by the rule-error handling, and a disable_int, or the deletion *)
(* of an enabled circuit, that returns normally leaves its circuits        *)
(* unregistered.                                                           *)
(***************************************************************************)
RegisteredSomewhere(e) == \E k \in DOMAIN srcs_pp : e \in srcs_pp[k].evc_ids

C34_RegisteredAreEnabled ==
    Idle => \A e \in EvcIds : RegisteredSomewhere(e) => evcs[e].telemetry.enabled

C34_RegisteredEnabledOrRuleError ==
    /\ Idle =>
          \A e \in EvcIds :
              RegisteredSomewhere(e) =>
                  \/ evcs[e].telemetry.enabled
                  \/ evcs[e].telemetry = OfptErrorMetadata
    /\ (IsCall("disable_int") /\ result = "ok") =>
          \A e \in EvcIds : InCall(e) => ~ RegisteredSomewhere(e)
    /\ (IsCall("on_evc_deleted") /\ result = "ok") =>
          \A e \in EvcIds :
              (InCall(e) /\ Prior(e).telemetry.enabled) => ~ RegisteredSomewhere(e)
    /\ IsCall("on_flow_mod_error") => srcs_pp = call.pps

C34_Witness ==
    /\ Idle
    /\ RegisteredSomewhere("e2")
    /\ evcs["e2"].telemetry = OfptErrorMetadata
    /\ RegisteredSomewhere("e1")
    /\ evcs["e1"].telemetry.enabled


(***************************************************************************)
(* C35. With the fallback flag on, once a ProxyPort link-down event and    *)
(* every operation in flight at that moment have completed, no             *)
(* telemetry-enabled circuit using that ProxyPort is left with status UP,  *)
(* including a circuit whose first enable_int was suspended (at the        *)
(* base-rule fetch, the rule dispatch or the metadata update) when the     *)
(* link went down.                                                         *)
(* It fails for the last two: the partition by ProxyPort status is made    *)
(* before the gather, and the handler does not see a circuit that is not   *)
(* yet in evc_ids. What does hold: a circuit left UP is one of the         *)
(* interrupted call, the link went down after its partition, and the       *)
(* handler did not deactivate it; a circuit suspended at the base-rule     *)
(* fetch ends DOWN with reason proxy_port_down.                            *)
(***************************************************************************)
UsesPp(e, x) == SourceKey(EvcUnis[e].uni_a) = x \/ SourceKey(EvcUnis[e].uni_z) = x

LinkDownHandled ==
    /\ InRace
    /\ call.enable.pc = "done"
    /\ call.down.pc = "done"
    /\ call.fallback

LeftUp(e) ==
    /\ evcs[e].telemetry.enabled
    /\ evcs[e].telemetry.status = "UP"
    /\ UsesPp(e, call.down.src)

C35_NoneLeftUp ==
    LinkDownHandled => \A e \in EvcIds : ~ LeftUp(e)

C35_LeftUpOnlyPastPartition ==
    LinkDownHandled =>
        \A e \in EvcIds :
            /\ LeftUp(e) =>
                  /\ InCall(e)
                  /\ call.down.at \in {"dispatch", "update", "register"}
                  /\ ~ IsIn(e, call.down.ids)
            /\ (InCall(e) /\ call.down.at = "fetch" /\ result = "ok" /\ UsesPp(e, call.down.src))
                  => evcs[e].telemetry = Telemetry(TRUE, "DOWN", <<"proxy_port_down">>)

C35_Witness ==
    /\ LinkDownHandled
    /\ call.down.at = "fetch"
    /\ call.down.pp = None
    /\ result = "ok"
    /\ InCall("e2")
    /\ UsesPp("e2", call.down.src)
    /\ evcs["e2"].telemetry = Telemetry(TRUE, "DOWN", <<"proxy_port_down">>)
    /\ RegisteredSomewhere("e2")


(***************************************************************************)
(* C36. An enable request at the REST entry point that is rejected by      *)
(* validation (for example Conflict because the circuit is already         *)
(* telemetry-enabled and force is false) dispatches no rule-delete         *)
(* command: the telemetry rules installed for the circuit and its metadata *)
(* are the same after the rejected request as before it.                   *)
(* It fails: the handler removes the stored telemetry rules of the         *)
(* requested circuits before enable_int validates. What does hold: a       *)
(* rejected request installs nothing, updates no metadata and registers no *)
(* circuit; what it deletes are telemetry rules of the requested circuits. *)
(***************************************************************************)
RejectedByValidation ==
    /\ IsCall("enable_telemetry")
    /\ call.ids # <<>>
    /\ validate_map_enable_evcs(call.ids, call.snap, call.force, call.pps).exc # "ok"
    /\ result = validate_map_enable_evcs(call.ids, call.snap, call.force, call.pps).exc

MetadataAsBefore == \A e \in EvcIds : evcs[e] = call.snap_all[e]

C36_RejectedLeavesRules ==
    RejectedByValidation =>
        /\ Deletes = {}
        /\ flows = call.stored
        /\ MetadataAsBefore

C36_RejectedDeletesOnly ==
    RejectedByValidation =>
        /\ Installs = {}
        /\ metadata_calls = <<>>
        /\ MetadataAsBefore
        /\ \A k \in DOMAIN srcs_pp :
              srcs_pp[k].evc_ids = IF k \in DOMAIN call.pps THEN call.pps[k].evc_ids ELSE {}
        /\ flows \subseteq call.stored
        /\ \A f \in call.stored \ flows :
              /\ f.flow.cookie.prefix = INT_COOKIE_PREFIX
              /\ InCall(get_id_from_cookie(f.flow.cookie))

C36_Witness ==
    /\ RejectedByValidation
    /\ result = "EVCHasINT"
    /\ ~ call.force
    /\ InCall("e2")
    /\ call.snap["e2"].telemetry = Telemetry(TRUE, "UP", <<>>)
    /\ evcs["e2"].telemetry = Telemetry(TRUE, "UP", <<>>)
    /\ IntStored(call.stored, "e2") # {}
    /\ Deletes # {}
    /\ IntStored(flows, "e2") = {}

====
